---- MODULE Spec2Model ----
(***************************************************************************)
(* A model of the sa015bcr key-derivation library (src/keylib.py): the     *)
(* password-blob codec, the SHA-256 hash chain, the hand-rolled AES-128    *)
(* block cipher and the derivation pipeline built from them.               *)
(*                                                                         *)
(* Bytes are integers 0..255, byte strings are sequences of bytes, text    *)
(* strings are sequences of one-character strings.  Every call of a        *)
(* library function runs in a frame that holds the call's arguments and    *)
(* locals; an action is one statement, or one loop iteration, of the code. *)
(***************************************************************************)
EXTENDS Integers, Sequences, FiniteSets, TLC

(***************************************************************************)
(* Bitwise arithmetic on non-negative integers (Python's ^ and &),         *)
(* computed a nibble at a time.                                            *)
(***************************************************************************)
(* XorNibble[a + 1][b + 1] = a ^ b and AndNibble[a + 1][b + 1] = a & b for  *)
(* a, b in 0..15.                                                           *)
XorNibble == <<
    << 0, 1, 2, 3, 4, 5, 6, 7, 8, 9, 10, 11, 12, 13, 14, 15 >>,
    << 1, 0, 3, 2, 5, 4, 7, 6, 9, 8, 11, 10, 13, 12, 15, 14 >>,
    << 2, 3, 0, 1, 6, 7, 4, 5, 10, 11, 8, 9, 14, 15, 12, 13 >>,
    << 3, 2, 1, 0, 7, 6, 5, 4, 11, 10, 9, 8, 15, 14, 13, 12 >>,
    << 4, 5, 6, 7, 0, 1, 2, 3, 12, 13, 14, 15, 8, 9, 10, 11 >>,
    << 5, 4, 7, 6, 1, 0, 3, 2, 13, 12, 15, 14, 9, 8, 11, 10 >>,
    << 6, 7, 4, 5, 2, 3, 0, 1, 14, 15, 12, 13, 10, 11, 8, 9 >>,
    << 7, 6, 5, 4, 3, 2, 1, 0, 15, 14, 13, 12, 11, 10, 9, 8 >>,
    << 8, 9, 10, 11, 12, 13, 14, 15, 0, 1, 2, 3, 4, 5, 6, 7 >>,
    << 9, 8, 11, 10, 13, 12, 15, 14, 1, 0, 3, 2, 5, 4, 7, 6 >>,
    << 10, 11, 8, 9, 14, 15, 12, 13, 2, 3, 0, 1, 6, 7, 4, 5 >>,
    << 11, 10, 9, 8, 15, 14, 13, 12, 3, 2, 1, 0, 7, 6, 5, 4 >>,
    << 12, 13, 14, 15, 8, 9, 10, 11, 4, 5, 6, 7, 0, 1, 2, 3 >>,
    << 13, 12, 15, 14, 9, 8, 11, 10, 5, 4, 7, 6, 1, 0, 3, 2 >>,
    << 14, 15, 12, 13, 10, 11, 8, 9, 6, 7, 4, 5, 2, 3, 0, 1 >>,
    << 15, 14, 13, 12, 11, 10, 9, 8, 7, 6, 5, 4, 3, 2, 1, 0 >> >>

AndNibble == <<
    << 0, 0, 0, 0, 0, 0, 0, 0, 0, 0, 0, 0, 0, 0, 0, 0 >>,
    << 0, 1, 0, 1, 0, 1, 0, 1, 0, 1, 0, 1, 0, 1, 0, 1 >>,
    << 0, 0, 2, 2, 0, 0, 2, 2, 0, 0, 2, 2, 0, 0, 2, 2 >>,
    << 0, 1, 2, 3, 0, 1, 2, 3, 0, 1, 2, 3, 0, 1, 2, 3 >>,
    << 0, 0, 0, 0, 4, 4, 4, 4, 0, 0, 0, 0, 4, 4, 4, 4 >>,
    << 0, 1, 0, 1, 4, 5, 4, 5, 0, 1, 0, 1, 4, 5, 4, 5 >>,
    << 0, 0, 2, 2, 4, 4, 6, 6, 0, 0, 2, 2, 4, 4, 6, 6 >>,
    << 0, 1, 2, 3, 4, 5, 6, 7, 0, 1, 2, 3, 4, 5, 6, 7 >>,
    << 0, 0, 0, 0, 0, 0, 0, 0, 8, 8, 8, 8, 8, 8, 8, 8 >>,
    << 0, 1, 0, 1, 0, 1, 0, 1, 8, 9, 8, 9, 8, 9, 8, 9 >>,
    << 0, 0, 2, 2, 0, 0, 2, 2, 8, 8, 10, 10, 8, 8, 10, 10 >>,
    << 0, 1, 2, 3, 0, 1, 2, 3, 8, 9, 10, 11, 8, 9, 10, 11 >>,
    << 0, 0, 0, 0, 4, 4, 4, 4, 8, 8, 8, 8, 12, 12, 12, 12 >>,
    << 0, 1, 0, 1, 4, 5, 4, 5, 8, 9, 8, 9, 12, 13, 12, 13 >>,
    << 0, 0, 2, 2, 4, 4, 6, 6, 8, 8, 10, 10, 12, 12, 14, 14 >>,
    << 0, 1, 2, 3, 4, 5, 6, 7, 8, 9, 10, 11, 12, 13, 14, 15 >> >>

RECURSIVE Xor(_, _)
Xor(a, b) ==
    IF a = 0 THEN b
    ELSE IF b = 0 THEN a
    ELSE XorNibble[(a % 16) + 1][(b % 16) + 1] + 16 * Xor(a \div 16, b \div 16)

RECURSIVE And(_, _)
And(a, b) ==
    IF a = 0 \/ b = 0 THEN 0
    ELSE AndNibble[(a % 16) + 1][(b % 16) + 1] + 16 * And(a \div 16, b \div 16)

Byte == 0..255

(* TRUE.  TLC passes arguments unevaluated and computes an argument once;   *)
(* a loop tests Evaluated(x) on entry so that x is computed before the next *)
(* iteration starts, not inside it.  For the same reason a value used more  *)
(* than once is an operator's argument.                                     *)
Evaluated(x) == x = x

IsBytes(s) == \A k \in DOMAIN s : s[k] \in Byte

(* Python's slice s[lo:hi] of a sequence, 0-based and clipped to the length. *)
Slice(s, lo, hi) ==
    LET h == IF hi < Len(s) THEN hi ELSE Len(s)
    IN  IF lo >= h THEN << >> ELSE [k \in 1..(h - lo) |-> s[lo + k]]

(***************************************************************************)
(* The fixed tables of the cipher.                                         *)
(***************************************************************************)
SBOX == <<
    99, 124, 119, 123, 242, 107, 111, 197, 48, 1, 103, 43, 254, 215, 171, 118,
    202, 130, 201, 125, 250, 89, 71, 240, 173, 212, 162, 175, 156, 164, 114, 192,
    183, 253, 147, 38, 54, 63, 247, 204, 52, 165, 229, 241, 113, 216, 49, 21,
    4, 199, 35, 195, 24, 150, 5, 154, 7, 18, 128, 226, 235, 39, 178, 117,
    9, 131, 44, 26, 27, 110, 90, 160, 82, 59, 214, 179, 41, 227, 47, 132,
    83, 209, 0, 237, 32, 252, 177, 91, 106, 203, 190, 57, 74, 76, 88, 207,
    208, 239, 170, 251, 67, 77, 51, 133, 69, 249, 2, 127, 80, 60, 159, 168,
    81, 163, 64, 143, 146, 157, 56, 245, 188, 182, 218, 33, 16, 255, 243, 210,
    205, 12, 19, 236, 95, 151, 68, 23, 196, 167, 126, 61, 100, 93, 25, 115,
    96, 129, 79, 220, 34, 42, 144, 136, 70, 238, 184, 20, 222, 94, 11, 219,
    224, 50, 58, 10, 73, 6, 36, 92, 194, 211, 172, 98, 145, 149, 228, 121,
    231, 200, 55, 109, 141, 213, 78, 169, 108, 86, 244, 234, 101, 122, 174, 8,
    186, 120, 37, 46, 28, 166, 180, 198, 232, 221, 116, 31, 75, 189, 139, 138,
    112, 62, 181, 102, 72, 3, 246, 14, 97, 53, 87, 185, 134, 193, 29, 158,
    225, 248, 152, 17, 105, 217, 142, 148, 155, 30, 135, 233, 206, 85, 40, 223,
    140, 161, 137, 13, 191, 230, 66, 104, 65, 153, 45, 15, 176, 84, 187, 22 >>

RCON == <<
    0, 1, 2, 4, 8, 16, 32, 64, 128, 27, 54 >>

(***************************************************************************)
(* GF(2^8) arithmetic.                                                     *)
(***************************************************************************)
xtime(value) ==
    LET v == value * 2
    IN  IF And(v, 256) # 0 THEN And(Xor(v, 283), 255) ELSE And(v, 255)

RECURSIVE gf_mul_loop(_, _, _, _)
gf_mul_loop(a, b, result, n) ==
    IF n = 0 THEN result
    ELSE gf_mul_loop(xtime(a), b \div 2,
                     IF And(b, 1) # 0 THEN Xor(result, a) ELSE result, n - 1)

(* Seven iterations of the loop instead of eight.                          *)
gf_mul_seven(a, b) == gf_mul_loop(a, b, 0, 7)

gf_mul(a, b) == gf_mul_loop(a, b, 0, 8)

(***************************************************************************)
(* The AES state: a 4x4 matrix, state[row][col], rows and columns 1..4     *)
(* for the code's 0..3.                                                    *)
(***************************************************************************)
bytes_to_state(block) ==
    [row \in 1..4 |-> [col \in 1..4 |-> block[(row - 1) + 4 * (col - 1) + 1]]]

state_to_bytes(state) ==
    [k \in 1..16 |-> state[((k - 1) % 4) + 1][((k - 1) \div 4) + 1]]

sub_bytes(state) ==
    [row \in 1..4 |-> [col \in 1..4 |-> SBOX[state[row][col] + 1]]]

shift_rows(state) ==
    [row \in 1..4 |->
        IF row = 1 THEN state[row]
        ELSE Slice(state[row], row - 1, 4) \o Slice(state[row], 0, row - 1)]

mix_column(a0, a1, a2, a3) ==
    << Xor(Xor(Xor(gf_mul(a0, 2), gf_mul(a1, 3)), a2), a3),
       Xor(Xor(Xor(a0, gf_mul(a1, 2)), gf_mul(a2, 3)), a3),
       Xor(Xor(Xor(a0, a1), gf_mul(a2, 2)), gf_mul(a3, 3)),
       Xor(Xor(Xor(gf_mul(a0, 3), a1), a2), gf_mul(a3, 2)) >>

mix_single_column(col) == mix_column(col[1], col[2], col[3], col[4])

(* The state whose columns are c1..c4. *)
columns_to_state(c1, c2, c3, c4) ==
    << << c1[1], c2[1], c3[1], c4[1] >>, << c1[2], c2[2], c3[2], c4[2] >>,
       << c1[3], c2[3], c3[3], c4[3] >>, << c1[4], c2[4], c3[4], c4[4] >> >>

mix_columns(state) ==
    LET column(col) ==
            mix_single_column(<< state[1][col], state[2][col], state[3][col],
                                 state[4][col] >>)
    IN  columns_to_state(column(1), column(2), column(3), column(4))

add_round_key(state, round_key) ==
    [row \in 1..4 |-> [col \in 1..4 |->
        Xor(state[row][col], round_key[(row - 1) + 4 * (col - 1) + 1])]]

rot_word(word) == Slice(word, 1, 4) \o Slice(word, 0, 1)

sub_word(word) == [j \in 1..Len(word) |-> SBOX[word[j] + 1]]

(* One iteration of the key-schedule loop: the word appended for index i. *)
xor_word(old, temp) ==
    << And(Xor(old[1], temp[1]), 255), And(Xor(old[2], temp[2]), 255),
       And(Xor(old[3], temp[3]), 255), And(Xor(old[4], temp[4]), 255) >>

(* The word left as it is: no round constant.                              *)
add_rcon_none(temp, i) == temp

add_rcon(temp, i) == [temp EXCEPT ![1] = Xor(temp[1], RCON[(i \div 4) + 1])]

(* words[i] is the code's words[i - 1], words[i - 3] its words[i - 4]. *)
new_word(words, i) ==
    xor_word(words[i - 3],
             IF i % 4 = 0 THEN add_rcon(sub_word(rot_word(words[i])), i)
             ELSE words[i])

RECURSIVE expand_words(_, _)
expand_words(words, i) ==
    IF ~Evaluated(words) \/ i >= 44 THEN words
    ELSE expand_words(Append(words, new_word(words, i)), i + 1)

(* The 11 round keys of a 16-byte key; the length check is the caller's. *)
round_key(words, r) ==
    words[4 * r + 1] \o words[4 * r + 2] \o words[4 * r + 3] \o words[4 * r + 4]

group_words(words) ==
    << round_key(words, 0), round_key(words, 1), round_key(words, 2),
       round_key(words, 3), round_key(words, 4), round_key(words, 5),
       round_key(words, 6), round_key(words, 7), round_key(words, 8),
       round_key(words, 9), round_key(words, 10) >>

expand_key(key) ==
    group_words(expand_words(<< Slice(key, 0, 4), Slice(key, 4, 8), Slice(key, 8, 12),
                                Slice(key, 12, 16) >>, 4))

(* aes_encrypt_block, lines 445-448: the body of the loop. *)
aes_round(state, key) == add_round_key(mix_columns(shift_rows(sub_bytes(state))), key)

(* A last round that mixes the columns like the rounds before it: C2 must *)
(* fail with it.                                                         *)
aes_final_round_mixed(state, key) ==
    add_round_key(mix_columns(shift_rows(sub_bytes(state))), key)

(* Lines 449-451. *)
aes_final_round(state, key) == add_round_key(shift_rows(sub_bytes(state)), key)

(* Lines 444-448: the rounds rnd..9 applied to state. *)
RECURSIVE aes_rounds(_, _, _)
aes_rounds(state, round_keys, rnd) ==
    IF ~Evaluated(state) \/ rnd >= 10 THEN state
    ELSE aes_rounds(aes_round(state, round_keys[rnd + 1]), round_keys, rnd + 1)

aes_encrypt_with(round_keys, block) ==
    state_to_bytes(
        aes_final_round(
            aes_rounds(add_round_key(bytes_to_state(block), round_keys[1]), round_keys, 1),
            round_keys[11]))

(* The value aes_encrypt_block returns for a 16-byte key and a 16-byte block. *)
aes_encrypt_block(key, block) == aes_encrypt_with(expand_key(key), block)

(***************************************************************************)
(* hashlib.sha256: SHA-256 (FIPS 180-4) of a byte string.  A 32-bit word   *)
(* is a pair <<hi, lo>> of 16-bit halves.                                  *)
(***************************************************************************)
Add32(x, y) ==
    LET lo == x[2] + y[2]
        hi == x[1] + y[1] + (lo \div 65536)
    IN  << hi % 65536, lo % 65536 >>

Xor16(a, b) ==
    4096 * XorNibble[(a \div 4096) + 1][(b \div 4096) + 1]
    + 256 * XorNibble[((a \div 256) % 16) + 1][((b \div 256) % 16) + 1]
    + 16 * XorNibble[((a \div 16) % 16) + 1][((b \div 16) % 16) + 1]
    + XorNibble[(a % 16) + 1][(b % 16) + 1]

And16(a, b) ==
    4096 * AndNibble[(a \div 4096) + 1][(b \div 4096) + 1]
    + 256 * AndNibble[((a \div 256) % 16) + 1][((b \div 256) % 16) + 1]
    + 16 * AndNibble[((a \div 16) % 16) + 1][((b \div 16) % 16) + 1]
    + AndNibble[(a % 16) + 1][(b % 16) + 1]

Xor32(x, y) == << Xor16(x[1], y[1]), Xor16(x[2], y[2]) >>

And32(x, y) == << And16(x[1], y[1]), And16(x[2], y[2]) >>

Not32(x) == << 65535 - x[1], 65535 - x[2] >>

Rotr32(x, n) ==
    LET y == IF n >= 16 THEN << x[2], x[1] >> ELSE x
        m == n % 16
        p == 2 ^ m
        q == 2 ^ (16 - m)
    IN  IF m = 0 THEN y
        ELSE << (y[1] \div p) + (y[2] % p) * q, (y[2] \div p) + (y[1] % p) * q >>

Shr32(x, n) ==
    IF n >= 16 THEN << 0, x[1] \div (2 ^ (n - 16)) >>
    ELSE LET p == 2 ^ n
             q == 2 ^ (16 - n)
         IN  << x[1] \div p, (x[2] \div p) + (x[1] % p) * q >>

ShaK == <<
    <<17034, 12184>>, <<28983, 17553>>, <<46528, 64463>>, <<59829, 56229>>,
    <<14678, 49755>>, <<23025, 4593>>, <<37439, 33444>>, <<43804, 24277>>,
    <<55303, 43672>>, <<4739, 23297>>, <<9265, 34238>>, <<21772, 32195>>,
    <<29374, 23924>>, <<32990, 45566>>, <<39900, 1703>>, <<49563, 61812>>,
    <<58523, 27073>>, <<61374, 18310>>, <<4033, 40390>>, <<9228, 41420>>,
    <<11753, 11375>>, <<19060, 33962>>, <<23728, 43484>>, <<30457, 35034>>,
    <<38974, 20818>>, <<43057, 50797>>, <<45059, 10184>>, <<48985, 32711>>,
    <<50912, 3059>>, <<54695, 37191>>, <<1738, 25425>>, <<5161, 10599>>,
    <<10167, 2693>>, <<11803, 8504>>, <<19756, 28156>>, <<21304, 3347>>,
    <<25866, 29524>>, <<30314, 2747>>, <<33218, 51502>>, <<37490, 11397>>,
    <<41663, 59553>>, <<43034, 26187>>, <<49739, 35696>>, <<51052, 20899>>,
    <<53650, 59417>>, <<54937, 1572>>, <<62478, 13701>>, <<4202, 41072>>,
    <<6564, 49430>>, <<7735, 27656>>, <<10056, 30540>>, <<13488, 48309>>,
    <<14620, 3251>>, <<20184, 43594>>, <<23452, 51791>>, <<26670, 28659>>,
    <<29839, 33518>>, <<30885, 25455>>, <<33992, 30740>>, <<36039, 520>>,
    <<37054, 65530>>, <<42064, 27883>>, <<48889, 41975>>, <<50801, 30962>> >>

ShaH0 == <<
    <<27145, 58983>>, <<47975, 44677>>, <<15470, 62322>>, <<42319, 62778>>,
    <<20750, 21119>>, <<39685, 26764>>, <<8067, 55723>>, <<23520, 52505>> >>

BigSigma0(x) == Xor32(Xor32(Rotr32(x, 2), Rotr32(x, 13)), Rotr32(x, 22))

BigSigma1(x) == Xor32(Xor32(Rotr32(x, 6), Rotr32(x, 11)), Rotr32(x, 25))

SmallSigma0(x) == Xor32(Xor32(Rotr32(x, 7), Rotr32(x, 18)), Shr32(x, 3))

SmallSigma1(x) == Xor32(Xor32(Rotr32(x, 17), Rotr32(x, 19)), Shr32(x, 10))

Ch(x, y, z) == Xor32(And32(x, y), And32(Not32(x), z))

Maj(x, y, z) == Xor32(Xor32(And32(x, y), And32(x, z)), And32(y, z))

(* The padded message: 0x80, zeros to 56 mod 64, the bit length in 8 bytes. *)
ShaPad(msg) ==
    LET n     == Len(msg)
        zeros == (119 - n) % 64
        bits  == 8 * n
    IN  msg \o << 128 >> \o [k \in 1..zeros |-> 0]
            \o << 0, 0, 0, 0, (bits \div 16777216) % 256, (bits \div 65536) % 256,
                  (bits \div 256) % 256, bits % 256 >>

RECURSIVE ShaSchedule(_, _)
ShaSchedule(w, t) ==
    IF ~Evaluated(w) \/ t > 64 THEN w
    ELSE ShaSchedule(Append(w, Add32(Add32(SmallSigma1(w[t - 2]), w[t - 7]),
                                     Add32(SmallSigma0(w[t - 15]), w[t - 16]))),
                     t + 1)

ShaRotate(v, t1, t2) ==
    << Add32(t1, t2), v[1], v[2], v[3], Add32(v[4], t1), v[5], v[6], v[7] >>

ShaRound(v, k, w) ==
    ShaRotate(v,
              Add32(Add32(Add32(v[8], BigSigma1(v[5])), Ch(v[5], v[6], v[7])),
                    Add32(k, w)),
              Add32(BigSigma0(v[1]), Maj(v[1], v[2], v[3])))

RECURSIVE ShaRounds(_, _, _)
ShaRounds(v, w, t) ==
    IF ~Evaluated(v) \/ t > 64 THEN v
    ELSE ShaRounds(ShaRound(v, ShaK[t], w[t]), w, t + 1)

ShaWord(block, t) ==
    << block[4 * t - 3] * 256 + block[4 * t - 2], block[4 * t - 1] * 256 + block[4 * t] >>

ShaWords(block) ==
    << ShaWord(block, 1), ShaWord(block, 2), ShaWord(block, 3), ShaWord(block, 4),
       ShaWord(block, 5), ShaWord(block, 6), ShaWord(block, 7), ShaWord(block, 8),
       ShaWord(block, 9), ShaWord(block, 10), ShaWord(block, 11), ShaWord(block, 12),
       ShaWord(block, 13), ShaWord(block, 14), ShaWord(block, 15), ShaWord(block, 16) >>

ShaAdd(h, v) ==
    << Add32(h[1], v[1]), Add32(h[2], v[2]), Add32(h[3], v[3]), Add32(h[4], v[4]),
       Add32(h[5], v[5]), Add32(h[6], v[6]), Add32(h[7], v[7]), Add32(h[8], v[8]) >>

ShaCompress(h, block) == ShaAdd(h, ShaRounds(h, ShaSchedule(ShaWords(block), 17), 1))

RECURSIVE ShaBlocks(_, _, _)
ShaBlocks(h, padded, k) ==
    IF ~Evaluated(h) \/ 64 * k >= Len(padded) THEN h
    ELSE ShaBlocks(ShaCompress(h, SubSeq(padded, 64 * k + 1, 64 * k + 64)), padded, k + 1)

WordBytes(x) == << x[1] \div 256, x[1] % 256, x[2] \div 256, x[2] % 256 >>

ShaBytes(h) ==
    WordBytes(h[1]) \o WordBytes(h[2]) \o WordBytes(h[3]) \o WordBytes(h[4])
      \o WordBytes(h[5]) \o WordBytes(h[6]) \o WordBytes(h[7]) \o WordBytes(h[8])

SHA256(msg) == ShaBytes(ShaBlocks(ShaH0, ShaPad(msg), 0))

(***************************************************************************)
(* base64.b64decode(payload, validate=True): the strict decoder.  It reads *)
(* the text one character at a time, four 6-bit digits making three bytes; *)
(* dec is <<quad_pos, leftchar, pads, padding_started, out, status>>.      *)
(***************************************************************************)
B64Alphabet == <<
    "A", "B", "C", "D", "E", "F", "G", "H", "I", "J", "K", "L", "M", "N", "O", "P",
    "Q", "R", "S", "T", "U", "V", "W", "X", "Y", "Z", "a", "b", "c", "d", "e", "f",
    "g", "h", "i", "j", "k", "l", "m", "n", "o", "p", "q", "r", "s", "t", "u", "v",
    "w", "x", "y", "z", "0", "1", "2", "3", "4", "5", "6", "7", "8", "9", "+", "/" >>

B64Pad == "="

IsB64Digit(ch) == \E d \in 1..64 : B64Alphabet[d] = ch

B64Digit(ch) == (CHOOSE d \in 1..64 : B64Alphabet[d] = ch) - 1

B64Chars == { B64Alphabet[d] : d \in 1..64 }

B64Read(quad_pos, leftchar, pads, started, out, ch, last) ==
        IF ch = B64Pad
        THEN IF quad_pos >= 2 /\ quad_pos + pads + 1 >= 4
             THEN IF ~last
                  THEN << quad_pos, leftchar, pads + 1, TRUE, out, "error" >>
                  ELSE << quad_pos, leftchar, pads + 1, TRUE, out, "done" >>
             ELSE << quad_pos, leftchar,
                     IF quad_pos >= 2 THEN pads + 1 ELSE pads, TRUE, out, "run" >>
        ELSE IF ~IsB64Digit(ch) THEN << quad_pos, leftchar, pads, started, out, "error" >>
        ELSE IF started THEN << quad_pos, leftchar, pads, started, out, "error" >>
        ELSE LET d == B64Digit(ch)
             IN  CASE quad_pos = 0 -> << 1, d, 0, started, out, "run" >>
                   [] quad_pos = 1 ->
                        << 2, d % 16, 0, started,
                           Append(out, leftchar * 4 + (d \div 16)), "run" >>
                   [] quad_pos = 2 ->
                        << 3, d % 4, 0, started,
                           Append(out, leftchar * 16 + (d \div 4)), "run" >>
                   [] quad_pos = 3 ->
                        << 0, 0, 0, started, Append(out, leftchar * 64 + d), "run" >>

B64Step(dec, ch, last) == B64Read(dec[1], dec[2], dec[3], dec[4], dec[5], ch, last)

RECURSIVE B64Loop(_, _, _)
B64Loop(dec, text, k) ==
    IF ~Evaluated(dec) \/ dec[6] # "run" THEN dec
    ELSE IF k > Len(text)
         THEN IF dec[1] # 0 THEN [dec EXCEPT ![6] = "error"] ELSE [dec EXCEPT ![6] = "done"]
         ELSE B64Loop(B64Step(dec, text[k], k = Len(text)), text, k + 1)

(* [ok |-> TRUE, bytes |-> the decoded bytes], or ok = FALSE where b64decode *)
(* raises binascii.Error.                                                   *)
B64Result(dec) ==
    IF dec[6] = "done" THEN [ok |-> TRUE, bytes |-> dec[5]]
    ELSE [ok |-> FALSE, bytes |-> << >>]

b64decode(text) ==
    IF Len(text) > 0 /\ text[1] = B64Pad THEN [ok |-> FALSE, bytes |-> << >>]
    ELSE B64Result(B64Loop(<< 0, 0, 0, FALSE, << >>, "run" >>, text, 1))

(***************************************************************************)
(* The errors the library raises, by their messages.                       *)
(***************************************************************************)
ErrTooShort == "Password blob too short; expect prefix plus 60 chars"

ErrPrefix == "Unsupported password prefix (expected '01' or '03')"

ErrPayloadLength == "Password payload must be exactly 60 Base64 characters"

ErrBase64 == "binascii.Error"

ErrDecodedLength == "Decoded payload must be 44 bytes"

ErrDigest == "Digest mismatch - blob is not authentic"

ErrAlgoMismatch == "Algorithm mismatch"

ErrSeedLength == "Seed must be exactly 5 bytes"

ErrSeedRejected == "Seed is not allowed by the blob's min_seed constraint"

ErrUnknownAlgo == "No password blob registered for algorithm"

ErrKeyLength == "AES-128 key must be 16 bytes long"

ErrBlockLength == "AES block must be 16 bytes"

ErrIndex == "IndexError: index out of range"

(***************************************************************************)
(* Password blobs: two entries of the library's table and blobs a caller   *)
(* may hand in.                                                            *)
(***************************************************************************)
(* PASSWORD_MAP[0x00] (line 10) *)
Blob00 == <<
    "0", "1", "E", "g", "j", "p", "x", "c", "z", "B", "k", "2", "p", "R", "S", "n",
    "6", "r", "/", "U", "f", "g", "I", "D", "r", "i", "R", "F", "H", "x", "E", "t",
    "k", "T", "7", "d", "l", "c", "d", "Q", "O", "p", "q", "2", "s", "A", "9", "Q",
    "A", "A", "f", "P", "9", "Q", "b", "o", "F", "o", "g", "6", "A", "=" >>

(* PASSWORD_MAP[0x87] (line 145) *)
Blob87 == <<
    "0", "1", "C", "Q", "P", "S", "J", "q", "J", "A", "U", "F", "3", "0", "k", "U",
    "u", "E", "h", "1", "5", "k", "D", "d", "Z", "q", "f", "q", "t", "a", "9", "p",
    "2", "G", "r", "P", "t", "I", "L", "E", "H", "8", "W", "7", "U", "A", "9", "Q",
    "C", "H", "W", "t", "1", "m", "7", "f", "C", "k", "C", "F", "s", "=" >>

(* prefix "03", min_seed 0, algo_id 135 *)
BlobMin0 == <<
    "0", "3", "A", "w", "o", "R", "G", "B", "8", "m", "L", "T", "Q", "7", "Q", "k",
    "l", "Q", "V", "1", "5", "l", "b", "H", "N", "6", "g", "Y", "i", "P", "l", "p",
    "2", "k", "q", "7", "K", "5", "w", "M", "f", "O", "1", "d", "w", "A", "A", "A",
    "C", "H", "b", "C", "J", "G", "N", "O", "k", "U", "N", "e", "A", "=" >>

(* min_seed 256 (0x0100), algo_id 135 *)
BlobMin256 == <<
    "0", "1", "y", "c", "S", "/", "u", "r", "W", "w", "q", "6", "a", "h", "n", "J",
    "e", "S", "j", "Y", "i", "D", "f", "n", "l", "0", "b", "2", "p", "l", "Y", "F",
    "t", "W", "U", "U", "x", "H", "Q", "j", "0", "4", "M", "y", "4", "B", "A", "A",
    "C", "H", "4", "K", "t", "s", "1", "+", "+", "g", "2", "x", "s", "=" >>

(* min_seed 253, algo_id 391 (0x0187) *)
BlobWide == <<
    "0", "1", "A", "w", "o", "R", "G", "B", "8", "m", "L", "T", "Q", "7", "Q", "k",
    "l", "Q", "V", "1", "5", "l", "b", "H", "N", "6", "g", "Y", "i", "P", "l", "p",
    "2", "k", "q", "7", "K", "5", "w", "M", "f", "O", "1", "d", "w", "A", "/", "Q",
    "G", "H", "D", "2", "Z", "m", "R", "8", "T", "D", "Y", "9", "o", "=" >>

(* Blob87 without its last character: 61 characters *)
BlobShort == <<
    "0", "1", "C", "Q", "P", "S", "J", "q", "J", "A", "U", "F", "3", "0", "k", "U",
    "u", "E", "h", "1", "5", "k", "D", "d", "Z", "q", "f", "q", "t", "a", "9", "p",
    "2", "G", "r", "P", "t", "I", "L", "E", "H", "8", "W", "7", "U", "A", "9", "Q",
    "C", "H", "W", "t", "1", "m", "7", "f", "C", "k", "C", "F", "s" >>

(* 40 characters, prefix 02 *)
BlobShortBadPrefix == <<
    "0", "2", "C", "Q", "P", "S", "J", "q", "J", "A", "U", "F", "3", "0", "k", "U",
    "u", "E", "h", "1", "5", "k", "D", "d", "Z", "q", "f", "q", "t", "a", "9", "p",
    "2", "G", "r", "P", "t", "I", "L", "E" >>

(* Blob87 and one more character: 63 characters *)
BlobLong == <<
    "0", "1", "C", "Q", "P", "S", "J", "q", "J", "A", "U", "F", "3", "0", "k", "U",
    "u", "E", "h", "1", "5", "k", "D", "d", "Z", "q", "f", "q", "t", "a", "9", "p",
    "2", "G", "r", "P", "t", "I", "L", "E", "H", "8", "W", "7", "U", "A", "9", "Q",
    "C", "H", "W", "t", "1", "m", "7", "f", "C", "k", "C", "F", "s", "=", "A" >>

(* Blob87 with the prefix 02 *)
BlobBadPrefix == <<
    "0", "2", "C", "Q", "P", "S", "J", "q", "J", "A", "U", "F", "3", "0", "k", "U",
    "u", "E", "h", "1", "5", "k", "D", "d", "Z", "q", "f", "q", "t", "a", "9", "p",
    "2", "G", "r", "P", "t", "I", "L", "E", "H", "8", "W", "7", "U", "A", "9", "Q",
    "C", "H", "W", "t", "1", "m", "7", "f", "C", "k", "C", "F", "s", "=" >>

(* Blob87 with a character outside the Base64 alphabet *)
BlobBadChar == <<
    "0", "1", "C", "Q", "P", "S", "J", "q", "J", "A", "U", "F", "3", "0", "k", "U",
    "u", "E", "h", "1", "*", "k", "D", "d", "Z", "q", "f", "q", "t", "a", "9", "p",
    "2", "G", "r", "P", "t", "I", "L", "E", "H", "8", "W", "7", "U", "A", "9", "Q",
    "C", "H", "W", "t", "1", "m", "7", "f", "C", "k", "C", "F", "s", "=" >>

(* 60 payload characters that decode to 43 bytes *)
BlobTwoPads == <<
    "0", "1", "C", "Q", "P", "S", "J", "q", "J", "A", "U", "F", "3", "0", "k", "U",
    "u", "E", "h", "1", "5", "k", "D", "d", "Z", "q", "f", "q", "t", "a", "9", "p",
    "2", "G", "r", "P", "t", "I", "L", "E", "H", "8", "W", "7", "U", "A", "9", "Q",
    "C", "H", "W", "t", "1", "m", "7", "f", "C", "k", "C", "F", "=", "=" >>

(* 60 payload characters that decode to 45 bytes *)
BlobNoPad == <<
    "0", "1", "C", "Q", "P", "S", "J", "q", "J", "A", "U", "F", "3", "0", "k", "U",
    "u", "E", "h", "1", "5", "k", "D", "d", "Z", "q", "f", "q", "t", "a", "9", "p",
    "2", "G", "r", "P", "t", "I", "L", "E", "H", "8", "W", "7", "U", "A", "9", "Q",
    "C", "H", "W", "t", "1", "m", "7", "f", "C", "k", "C", "F", "s", "A" >>

(* Blob87 with one bit of its secret flipped *)
BlobBadBody == <<
    "0", "1", "C", "Q", "P", "S", "N", "q", "J", "A", "U", "F", "3", "0", "k", "U",
    "u", "E", "h", "1", "5", "k", "D", "d", "Z", "q", "f", "q", "t", "a", "9", "p",
    "2", "G", "r", "P", "t", "I", "L", "E", "H", "8", "W", "7", "U", "A", "9", "Q",
    "C", "H", "W", "t", "1", "m", "7", "f", "C", "k", "C", "F", "s", "=" >>

(* Blob87 with one bit of its checksum flipped *)
BlobBadTag == <<
    "0", "1", "C", "Q", "P", "S", "J", "q", "J", "A", "U", "F", "3", "0", "k", "U",
    "u", "E", "h", "1", "5", "k", "D", "d", "Z", "q", "f", "q", "t", "a", "9", "p",
    "2", "G", "r", "P", "t", "I", "L", "E", "H", "8", "W", "7", "U", "A", "9", "Q",
    "C", "H", "W", "t", "1", "m", "7", "f", "G", "k", "C", "F", "s", "=" >>

(* The library's table, restricted to two of its 256 entries. *)
PASSWORD_MAP == (0 :> Blob00) @@ (135 :> Blob87)

(* A registry supplied by the caller. *)
CallerMap ==
    (135 :> BlobWide) @@ (391 :> BlobWide) @@ (7 :> << >>) @@ (8 :> BlobBadTag)
      @@ (9 :> BlobShort)

(***************************************************************************)
(* State.  password_map is the registry the derivations read, frame[th]    *)
(* the call thread th is running, calls[th] the number of calls th has     *)
(* made, observed what callers have seen returned or raised, by the call's *)
(* arguments.                                                              *)
(***************************************************************************)
VARIABLES password_map, frame, observed, calls

vars == << password_map, frame, observed, calls >>

Threads == { "t1", "t2" }

Main == "t1"

NoRecord == [secret |-> << >>, min_seed |-> -1, algo_id |-> -1]

(* A frame before any call: -1 and << >> stand for names not yet bound.    *)
(* sha_calls and aes_calls count the calls of hashlib.sha256 and of        *)
(* aes_encrypt_block, ops lists the state transformations the cipher has   *)
(* applied.                                                                *)
NewFrame ==
    [ entry      |-> "idle",  pc         |-> "idle",
      algo       |-> -1,      seed       |-> << >>,   blob       |-> << >>,
      payload    |-> << >>,   raw        |-> << >>,   record     |-> NoRecord,
      seed_tail  |-> -1,      max_seed   |-> -1,      iterations |-> -1,
      secret     |-> << >>,   digest     |-> << >>,   count      |-> -1,
      aes_key    |-> << >>,   key        |-> << >>,   block      |-> << >>,
      round_keys |-> << >>,   state      |-> << >>,   rnd        |-> -1,
      cipher     |-> << >>,   result     |-> << >>,   error      |-> "",
      sha_calls  |-> 0,       aes_calls  |-> 0,       ops        |-> << >> ]

(* The frames of the five functions a caller may call. *)
CallDeriveAlgo(algo, seed) ==
    [NewFrame EXCEPT !.entry = "derive_key_from_algo", !.pc = "algo_lookup",
                     !.algo = algo, !.seed = seed]

CallDeriveBlob(blob, seed, algo) ==
    [NewFrame EXCEPT !.entry = "derive_key_from_blob", !.pc = "parse_length",
                     !.blob = blob, !.seed = seed, !.algo = algo]

CallParse(blob) ==
    [NewFrame EXCEPT !.entry = "parse_password_blob", !.pc = "parse_length",
                     !.blob = blob]

CallChain(secret, iterations) ==
    [NewFrame EXCEPT !.entry = "run_hash_chain", !.pc = "chain_enter",
                     !.secret = secret, !.iterations = iterations]

CallAes(key, block) ==
    [NewFrame EXCEPT !.entry = "aes_encrypt_block", !.pc = "aes_check_block",
                     !.key = key, !.block = block]

Raise(f, err) == [f EXCEPT !.pc = "raised", !.error = err]

Return(f, value) == [f EXCEPT !.pc = "returned", !.result = value]

Finished(f) == f.pc \in { "returned", "raised" }

(* The bytes read least significant first: C8 must fail with it. *)
RECURSIVE int_from_bytes_little(_)
int_from_bytes_little(bytes) ==
    IF Len(bytes) = 0 THEN 0
    ELSE bytes[1] + 256 * int_from_bytes_little(Slice(bytes, 1, Len(bytes)))

(* int.from_bytes(bytes, "big") *)
RECURSIVE int_from_bytes(_)
int_from_bytes(bytes) ==
    IF Len(bytes) = 0 THEN 0
    ELSE 256 * int_from_bytes(Slice(bytes, 0, Len(bytes) - 1)) + bytes[Len(bytes)]

(***************************************************************************)
(* derive_key_from_algo, lines 486-491.                                    *)
(***************************************************************************)
(* A lookup that takes the blob out of the registry, as password_map.pop *)
(* would: C10 must fail with it.                                        *)
LookupPop(th) ==
    /\ frame[th].pc = "algo_lookup"
    /\ LET f     == frame[th]
           found == f.algo \in DOMAIN password_map
           blob  == IF found THEN password_map[f.algo] ELSE << >>
       IN  /\ frame' = [frame EXCEPT ![th] =
                   IF ~found \/ Len(blob) = 0
                   THEN Raise(f, ErrUnknownAlgo)
                   ELSE [f EXCEPT !.blob = blob, !.pc = "parse_length"]]
           /\ password_map' = [a \in DOMAIN password_map \ { f.algo } |-> password_map[a]]
    /\ UNCHANGED << observed, calls >>

Lookup(th) ==
    /\ frame[th].pc = "algo_lookup"
    /\ LET f     == frame[th]
           found == f.algo \in DOMAIN password_map
           blob  == IF found THEN password_map[f.algo] ELSE << >>
       IN  frame' = [frame EXCEPT ![th] =
                IF ~found \/ Len(blob) = 0                     \* if not blob
                THEN Raise(f, ErrUnknownAlgo)
                ELSE [f EXCEPT !.blob = blob, !.pc = "parse_length"]]
    /\ UNCHANGED << password_map, observed, calls >>

(***************************************************************************)
(* parse_password_blob, lines 318-335.                                     *)
(***************************************************************************)
(* The prefix looked at before the length.                                 *)
ParseLengthAfterPrefix(th) ==
    /\ frame[th].pc = "parse_length"
    /\ LET f == frame[th]
       IN  frame' = [frame EXCEPT ![th] =
                IF Slice(f.blob, 0, 2) \notin { << "0", "1" >>, << "0", "3" >> }
                THEN Raise(f, ErrPrefix)
                ELSE IF Len(f.blob) < 62 THEN Raise(f, ErrTooShort)
                ELSE [f EXCEPT !.pc = "parse_prefix"]]
    /\ UNCHANGED << password_map, observed, calls >>

ParseLength(th) ==
    /\ frame[th].pc = "parse_length"
    /\ LET f == frame[th]
       IN  frame' = [frame EXCEPT ![th] =
                IF Len(f.blob) < 62 THEN Raise(f, ErrTooShort)
                ELSE [f EXCEPT !.pc = "parse_prefix"]]
    /\ UNCHANGED << password_map, observed, calls >>

ParsePrefix(th) ==
    /\ frame[th].pc = "parse_prefix"
    /\ LET f      == frame[th]
           prefix == Slice(f.blob, 0, 2)
       IN  frame' = [frame EXCEPT ![th] =
                IF prefix \notin { << "0", "1" >>, << "0", "3" >> }
                THEN Raise(f, ErrPrefix)
                ELSE [f EXCEPT !.payload = Slice(f.blob, 2, Len(f.blob)),
                               !.pc = "parse_payload_length"]]
    /\ UNCHANGED << password_map, observed, calls >>

(* A check that lets a longer payload through: C5 as amended must fail *)
(* with it.                                                            *)
payload_too_short(payload) == Len(payload) < 60

(* Line 324. *)
payload_length_wrong(payload) == Len(payload) # 60

ParsePayloadLength(th) ==
    /\ frame[th].pc = "parse_payload_length"
    /\ LET f == frame[th]
       IN  frame' = [frame EXCEPT ![th] =
                IF payload_length_wrong(f.payload) THEN Raise(f, ErrPayloadLength)
                ELSE [f EXCEPT !.pc = "parse_decode"]]
    /\ UNCHANGED << password_map, observed, calls >>

(* Line 326: raw is the decoded payload, or the decoder's error is raised. *)
Decoded(f, decoded) ==
    IF ~decoded.ok THEN Raise(f, ErrBase64)
    ELSE [f EXCEPT !.raw = decoded.bytes, !.pc = "parse_raw_length"]

ParseDecode(th) ==
    /\ frame[th].pc = "parse_decode"
    /\ frame' = [frame EXCEPT ![th] = Decoded(frame[th], b64decode(frame[th].payload))]
    /\ UNCHANGED << password_map, observed, calls >>

ParseRawLength(th) ==
    /\ frame[th].pc = "parse_raw_length"
    /\ LET f == frame[th]
       IN  frame' = [frame EXCEPT ![th] =
                IF Len(f.raw) # 44 THEN Raise(f, ErrDecodedLength)
                ELSE [f EXCEPT !.pc = "parse_digest"]]
    /\ UNCHANGED << password_map, observed, calls >>

(* A comparison of the first 7 checksum bytes only: C6 must fail with it. *)
digest_mismatch_short(digest, raw) == Slice(digest, 0, 7) # Slice(raw, 36, 43)

(* Line 333. *)
digest_mismatch(digest, raw) == digest # Slice(raw, 36, 44)

(* Lines 329-335: the fields, the digest, the comparison and the return. *)
ParseDigest(th) ==
    /\ frame[th].pc = "parse_digest"
    /\ LET f      == frame[th]
           record == [secret   |-> Slice(f.raw, 0, 32),
                      min_seed |-> int_from_bytes(Slice(f.raw, 32, 34)),
                      algo_id  |-> int_from_bytes(Slice(f.raw, 34, 36))]
           digest == Slice(SHA256(Slice(f.raw, 0, 36)), 0, 8)
           g      == [f EXCEPT !.sha_calls = @ + 1]
       IN  frame' = [frame EXCEPT ![th] =
                IF digest_mismatch(digest, f.raw) THEN Raise(g, ErrDigest)
                ELSE IF f.entry = "parse_password_blob"
                     THEN Return([g EXCEPT !.record = record], record)
                     ELSE [g EXCEPT !.record = record, !.pc = "check_algo"]]
    /\ UNCHANGED << password_map, observed, calls >>

(***************************************************************************)
(* derive_key_from_blob, lines 465-480.                                    *)
(***************************************************************************)
(* The seed's length looked at before the algorithm: C7 must fail with it. *)
CheckSeedBeforeAlgo(th) ==
    /\ frame[th].pc = "check_algo"
    /\ LET f == frame[th]
       IN  frame' = [frame EXCEPT ![th] =
                IF Len(f.seed) # 5 THEN Raise(f, ErrSeedLength)
                ELSE IF f.algo # f.record.algo_id THEN Raise(f, ErrAlgoMismatch)
                ELSE [f EXCEPT !.pc = "check_seed_length"]]
    /\ UNCHANGED << password_map, observed, calls >>

CheckAlgo(th) ==
    /\ frame[th].pc = "check_algo"
    /\ LET f == frame[th]
       IN  frame' = [frame EXCEPT ![th] =
                IF f.algo # f.record.algo_id THEN Raise(f, ErrAlgoMismatch)
                ELSE [f EXCEPT !.pc = "check_seed_length"]]
    /\ UNCHANGED << password_map, observed, calls >>

(* The length of the seed not looked at.                                   *)
CheckSeedLengthSkipped(th) ==
    /\ frame[th].pc = "check_seed_length"
    /\ frame' = [frame EXCEPT ![th] = [frame[th] EXCEPT !.pc = "check_min_seed"]]
    /\ UNCHANGED << password_map, observed, calls >>

CheckSeedLength(th) ==
    /\ frame[th].pc = "check_seed_length"
    /\ LET f == frame[th]
       IN  frame' = [frame EXCEPT ![th] =
                IF Len(f.seed) # 5 THEN Raise(f, ErrSeedLength)
                ELSE [f EXCEPT !.pc = "check_min_seed"]]
    /\ UNCHANGED << password_map, observed, calls >>

(* No seed rejected: the comparison with the threshold left out.           *)
seed_never_rejected(min_seed, max_seed) == FALSE

(* A comparison that also rejects min_seed = max_seed: C3 must fail with it. *)
seed_rejected_at_bound(min_seed, max_seed) == min_seed >= max_seed

(* Line 472. *)
seed_rejected(min_seed, max_seed) == min_seed > max_seed

(* Lines 470-475: seed[4] is read here, and raises IndexError on a seed of *)
(* fewer than 5 bytes.                                                     *)
CheckMinSeed(th) ==
    /\ frame[th].pc = "check_min_seed"
    /\ LET f == frame[th]
       IN  frame' = [frame EXCEPT ![th] =
                IF Len(f.seed) < 5 THEN Raise(f, ErrIndex)
                ELSE LET seed_tail == f.seed[5]
                         max_seed  == 255 - seed_tail
                         g == [f EXCEPT !.seed_tail = seed_tail, !.max_seed = max_seed]
                     IN  IF seed_rejected(f.record.min_seed, max_seed)
                         THEN Raise(g, ErrSeedRejected)
                         ELSE [g EXCEPT !.iterations = max_seed - f.record.min_seed,
                                        !.secret = f.record.secret,
                                        !.pc = "chain_enter"]]
    /\ UNCHANGED << password_map, observed, calls >>

(***************************************************************************)
(* run_hash_chain, lines 457-460.                                          *)
(***************************************************************************)
(* A chain that starts from the hash of the secret: C9 must fail with it. *)
ChainEnterHashed(th) ==
    /\ frame[th].pc = "chain_enter"
    /\ LET f == frame[th]
       IN  frame' = [frame EXCEPT ![th] =
                [f EXCEPT !.digest = SHA256(f.secret), !.count = 0, !.pc = "chain_loop"]]
    /\ UNCHANGED << password_map, observed, calls >>

ChainEnter(th) ==
    /\ frame[th].pc = "chain_enter"
    /\ LET f == frame[th]
       IN  frame' = [frame EXCEPT ![th] =
                [f EXCEPT !.digest = f.secret, !.count = 0, !.pc = "chain_loop"]]
    /\ UNCHANGED << password_map, observed, calls >>

HashStep(th) ==
    /\ frame[th].pc = "chain_loop"
    /\ frame[th].count < frame[th].iterations
    /\ LET f == frame[th]
       IN  frame' = [frame EXCEPT ![th] =
                [f EXCEPT !.digest = SHA256(f.digest), !.count = @ + 1,
                          !.sha_calls = @ + 1]]
    /\ UNCHANGED << password_map, observed, calls >>

ChainReturn(th) ==
    /\ frame[th].pc = "chain_loop"
    /\ frame[th].count >= frame[th].iterations
    /\ LET f == frame[th]
       IN  frame' = [frame EXCEPT ![th] =
                IF f.entry = "run_hash_chain" THEN Return(f, f.digest)
                ELSE [f EXCEPT !.pc = "derive_block"]]
    /\ UNCHANGED << password_map, observed, calls >>

(* Lines 476-477: sixteen 0xFF bytes, then block[11:16] = seed. *)
filled_block == [k \in 1..16 |-> 255]

(* The block with the seed in its first bytes: C1 must fail with it. *)
seed_block_front(seed) == seed \o Slice(filled_block, 5, 16)

(* The seed appended to the filled block instead of written into it.      *)
seed_block_appended(seed) == filled_block \o seed

seed_block(seed) == Slice(filled_block, 0, 11) \o seed \o Slice(filled_block, 16, 16)

(* Lines 475-478: the AES key, the block that carries the seed, the call. *)
DeriveBlock(th) ==
    /\ frame[th].pc = "derive_block"
    /\ LET f       == frame[th]
           aes_key == Slice(f.digest, 0, 16)
       IN  frame' = [frame EXCEPT ![th] =
                [f EXCEPT !.aes_key = aes_key, !.key = aes_key,
                          !.block = seed_block(f.seed), !.pc = "aes_check_block"]]
    /\ UNCHANGED << password_map, observed, calls >>

(***************************************************************************)
(* aes_encrypt_block, lines 439-452, with expand_key's check of the key.   *)
(***************************************************************************)
AesCheckBlock(th) ==
    /\ frame[th].pc = "aes_check_block"
    /\ LET f == [frame[th] EXCEPT !.aes_calls = @ + 1]
       IN  frame' = [frame EXCEPT ![th] =
                IF Len(f.block) # 16 THEN Raise(f, ErrBlockLength)
                ELSE [f EXCEPT !.pc = "aes_expand_key"]]
    /\ UNCHANGED << password_map, observed, calls >>

AesExpandKey(th) ==
    /\ frame[th].pc = "aes_expand_key"
    /\ LET f == frame[th]
       IN  frame' = [frame EXCEPT ![th] =
                IF Len(f.key) # 16 THEN Raise(f, ErrKeyLength)
                ELSE [f EXCEPT !.round_keys = expand_key(f.key), !.pc = "aes_initial"]]
    /\ UNCHANGED << password_map, observed, calls >>

AesInitialRound(th) ==
    /\ frame[th].pc = "aes_initial"
    /\ LET f == frame[th]
       IN  frame' = [frame EXCEPT ![th] =
                [f EXCEPT !.state = add_round_key(bytes_to_state(f.block), f.round_keys[1]),
                          !.ops = << "add_round_key" >>,
                          !.rnd = 1, !.pc = "aes_rounds"]]
    /\ UNCHANGED << password_map, observed, calls >>

AesMainRound(th) ==
    /\ frame[th].pc = "aes_rounds"
    /\ frame[th].rnd < 10
    /\ LET f == frame[th]
       IN  frame' = [frame EXCEPT ![th] =
                [f EXCEPT !.state = aes_round(f.state, f.round_keys[f.rnd + 1]),
                          !.ops = @ \o << "sub_bytes", "shift_rows", "mix_columns",
                                          "add_round_key" >>,
                          !.rnd = @ + 1]]
    /\ UNCHANGED << password_map, observed, calls >>

AesLastRound(th) ==
    /\ frame[th].pc = "aes_rounds"
    /\ frame[th].rnd >= 10
    /\ LET f == frame[th]
       IN  frame' = [frame EXCEPT ![th] =
                [f EXCEPT !.state = aes_final_round(f.state, f.round_keys[11]),
                          !.ops = @ \o << "sub_bytes", "shift_rows", "add_round_key" >>,
                          !.pc = "aes_return"]]
    /\ UNCHANGED << password_map, observed, calls >>

AesReturn(th) ==
    /\ frame[th].pc = "aes_return"
    /\ LET f      == frame[th]
           cipher == state_to_bytes(f.state)
       IN  frame' = [frame EXCEPT ![th] =
                IF f.entry = "aes_encrypt_block" THEN Return(f, cipher)
                ELSE [f EXCEPT !.cipher = cipher, !.pc = "derive_return"]]
    /\ UNCHANGED << password_map, observed, calls >>

(* Lines 479-480: the MAC is the first 5 bytes of the ciphertext. *)
DeriveReturn(th) ==
    /\ frame[th].pc = "derive_return"
    /\ LET f == frame[th]
       IN  frame' = [frame EXCEPT ![th] =
                Return(f, [mac |-> Slice(f.cipher, 0, 5), iterations |-> f.iterations,
                           aes_key |-> f.aes_key])]
    /\ UNCHANGED << password_map, observed, calls >>

(***************************************************************************)
(* One call of derive_key_from_algo or derive_key_from_blob.               *)
(***************************************************************************)
Seed87 == << 140, 231, 209, 253, 6 >>

SeedInputs ==
    { Seed87, << 1, 2, 3, 4, 10 >>, << 1, 2, 3, 4, 11 >>, << 9, 8, 7, 6, 0 >>,
      << 0, 0, 0, 0, 255 >>, << 1, 2, 3, 4 >>, << 1, 2, 3, 4, 5, 6 >> }

(* Seeds for a blob whose min_seed is 0: a tail near 255 keeps the chain short. *)
HighSeedInputs ==
    { << 0, 0, 0, 0, 255 >>, << 5, 6, 7, 8, 253 >>, << 1, 2, 3, 4 >>,
      << 1, 2, 3, 4, 5, 6 >> }

BlobInputs ==
    { Blob87, BlobMin256, BlobWide, BlobShort, BlobShortBadPrefix, BlobLong,
      BlobBadPrefix, BlobBadChar, BlobTwoPads, BlobNoPad, BlobBadBody, BlobBadTag,
      << >> }

Registries == { PASSWORD_MAP, CallerMap }

AlgoInputs == { 0, 7, 8, 9, 99, 135, 391 }

DeriveCalls ==
    { CallDeriveBlob(b, s, a) : b \in BlobInputs, s \in SeedInputs, a \in { 135, 391 } }
      \cup { CallDeriveBlob(BlobMin0, s, a) : s \in HighSeedInputs, a \in { 135, 391 } }

OneCall(f) == frame = [th \in Threads |-> IF th = Main THEN f ELSE NewFrame]

Init ==
    /\ observed = { }
    /\ calls = [th \in Threads |-> IF th = Main THEN 1 ELSE 0]
    /\ \/ /\ password_map \in Registries
          /\ \E a \in AlgoInputs, s \in SeedInputs : OneCall(CallDeriveAlgo(a, s))
       \/ /\ password_map = PASSWORD_MAP
          /\ \E f \in DeriveCalls : OneCall(f)

Next ==
    \/ Lookup(Main)
    \/ ParseLength(Main) \/ ParsePrefix(Main) \/ ParsePayloadLength(Main)
    \/ ParseDecode(Main) \/ ParseRawLength(Main) \/ ParseDigest(Main)
    \/ CheckAlgo(Main) \/ CheckSeedLength(Main) \/ CheckMinSeed(Main)
    \/ ChainEnter(Main) \/ HashStep(Main) \/ ChainReturn(Main)
    \/ DeriveBlock(Main)
    \/ AesCheckBlock(Main) \/ AesExpandKey(Main) \/ AesInitialRound(Main)
    \/ AesMainRound(Main) \/ AesLastRound(Main) \/ AesReturn(Main)
    \/ DeriveReturn(Main)

Spec == Init /\ [][Next]_vars

(***************************************************************************)
(* Calls of aes_encrypt_block alone: the FIPS-197 example, other keys and  *)
(* blocks, and a key and a block of a wrong length.                        *)
(***************************************************************************)
FipsKey == << 0, 1, 2, 3, 4, 5, 6, 7, 8, 9, 10, 11, 12, 13, 14, 15 >>

FipsPlain ==
    << 0, 17, 34, 51, 68, 85, 102, 119, 136, 153, 170, 187, 204, 221, 238, 255 >>

KeyInputs ==
    { FipsKey, [k \in 1..16 |-> 0],
      << 223, 127, 100, 210, 221, 218, 193, 161, 143, 27, 77, 74, 25, 22, 16, 249 >>,
      [k \in 1..15 |-> k], [k \in 1..17 |-> k] }

BlockInputs ==
    { FipsPlain, [k \in 1..16 |-> 0], seed_block(Seed87), [k \in 1..15 |-> 255],
      [k \in 1..17 |-> 255] }

InitAES ==
    /\ password_map = PASSWORD_MAP
    /\ observed = { }
    /\ calls = [th \in Threads |-> IF th = Main THEN 1 ELSE 0]
    /\ \E key \in KeyInputs, block \in BlockInputs : OneCall(CallAes(key, block))

NextAES ==
    \/ AesCheckBlock(Main) \/ AesExpandKey(Main) \/ AesInitialRound(Main)
    \/ AesMainRound(Main) \/ AesLastRound(Main) \/ AesReturn(Main)

SpecAES == InitAES /\ [][NextAES]_vars

(***************************************************************************)
(* Calls of parse_password_blob alone: the blobs above, longer blobs, and  *)
(* each accepted blob with one bit of its checksum flipped and the payload *)
(* encoded again.                                                          *)
(***************************************************************************)
B64Sextet(bytes, g, p) ==
    LET b0 == bytes[3 * g + 1]
        b1 == IF 3 * g + 2 <= Len(bytes) THEN bytes[3 * g + 2] ELSE 0
        b2 == IF 3 * g + 3 <= Len(bytes) THEN bytes[3 * g + 3] ELSE 0
    IN  CASE p = 0 -> B64Alphabet[(b0 \div 4) + 1]
          [] p = 1 -> B64Alphabet[(b0 % 4) * 16 + (b1 \div 16) + 1]
          [] p = 2 -> IF 3 * g + 2 > Len(bytes) THEN B64Pad
                      ELSE B64Alphabet[(b1 % 16) * 4 + (b2 \div 64) + 1]
          [] p = 3 -> IF 3 * g + 3 > Len(bytes) THEN B64Pad
                      ELSE B64Alphabet[(b2 % 64) + 1]

(* base64.b64encode *)
b64encode(bytes) ==
    [c \in 1..(4 * ((Len(bytes) + 2) \div 3)) |->
        B64Sextet(bytes, (c - 1) \div 4, (c - 1) % 4)]

AcceptedBlobs == { Blob87, BlobMin0 }

ChecksumBits == 0..63

(* raw with bit k of its last 8 bytes flipped. *)
FlipBit(raw, k) == [raw EXCEPT ![37 + (k \div 8)] = Xor(@, 2 ^ (k % 8))]

Flipped(blob, k) ==
    Slice(blob, 0, 2) \o b64encode(FlipBit(b64decode(Slice(blob, 2, 62)).bytes, k))

FlippedBlobs == { Flipped(blob, k) : blob \in AcceptedBlobs, k \in ChecksumBits }

LongBlobs ==
    { Append(BlobBadPrefix, "A"), Append(BlobMin0, "="), BlobMin0 \o Slice(BlobMin0, 2, 62) }

(* Blobs that fail more than one check: the prefix 02 on a payload that is *)
(* not Base64, decodes to 43 bytes, or carries a wrong checksum.           *)
BadPrefixBlobs ==
    { [blob EXCEPT ![2] = "2"] : blob \in { BlobBadChar, BlobTwoPads, BlobBadTag } }

ParseInputs ==
    BlobInputs \cup { Blob00, BlobMin0 } \cup LongBlobs \cup FlippedBlobs
      \cup BadPrefixBlobs

InitParse ==
    /\ password_map = PASSWORD_MAP
    /\ observed = { }
    /\ calls = [th \in Threads |-> IF th = Main THEN 1 ELSE 0]
    /\ \E blob \in ParseInputs : OneCall(CallParse(blob))

NextParse ==
    \/ ParseLength(Main) \/ ParsePrefix(Main) \/ ParsePayloadLength(Main)
    \/ ParseDecode(Main) \/ ParseRawLength(Main) \/ ParseDigest(Main)

SpecParse == InitParse /\ [][NextParse]_vars

(***************************************************************************)
(* Calls of run_hash_chain alone: secrets of 0, 1, 32 and 64 bytes, and    *)
(* iteration counts from -1, for which range() is empty, to MaxIterations. *)
(***************************************************************************)
MaxIterations == 5

SecretInputs ==
    { << >>, << 1 >>, [k \in 1..32 |-> (7 * k + 3) % 256], [k \in 1..64 |-> 255 - k] }

InitChain ==
    /\ password_map = PASSWORD_MAP
    /\ observed = { }
    /\ calls = [th \in Threads |-> IF th = Main THEN 1 ELSE 0]
    /\ \E secret \in SecretInputs, n \in (-1)..MaxIterations :
           OneCall(CallChain(secret, n))

NextChain == ChainEnter(Main) \/ HashStep(Main) \/ ChainReturn(Main)

SpecChain == InitChain /\ [][NextChain]_vars

(***************************************************************************)
(* Two threads that call derive_key_from_algo on the library's registry,   *)
(* MaxCalls calls between them, a thread's next call starting when its     *)
(* last has returned or raised; the steps of the two interleave.           *)
(***************************************************************************)
MaxCalls == 2

CallInputs == { << 135, << 1, 2, 3, 4, 9 >> >>, << 135, << 1, 2, 3, 4 >> >> }

(* What the caller of a finished frame has seen. *)
Outcome(f) ==
    [algo |-> f.algo, seed |-> f.seed, pc |-> f.pc, result |-> f.result,
     error |-> f.error]

Call(th) ==
    /\ frame[th].pc = "idle" \/ Finished(frame[th])
    /\ calls["t1"] + calls["t2"] < MaxCalls
    /\ \E c \in CallInputs :
           frame' = [frame EXCEPT ![th] = CallDeriveAlgo(c[1], c[2])]
    /\ calls' = [calls EXCEPT ![th] = @ + 1]
    /\ observed' = IF Finished(frame[th]) THEN observed \cup { Outcome(frame[th]) }
                   ELSE observed
    /\ UNCHANGED password_map

InitConc ==
    /\ password_map = PASSWORD_MAP
    /\ observed = { }
    /\ calls = [th \in Threads |-> 0]
    /\ frame = [th \in Threads |-> NewFrame]

NextConc ==
    \E th \in Threads :
        \/ Call(th)
        \/ Lookup(th)
        \/ ParseLength(th) \/ ParsePrefix(th) \/ ParsePayloadLength(th)
        \/ ParseDecode(th) \/ ParseRawLength(th) \/ ParseDigest(th)
        \/ CheckAlgo(th) \/ CheckSeedLength(th) \/ CheckMinSeed(th)
        \/ ChainEnter(th) \/ HashStep(th) \/ ChainReturn(th)
        \/ DeriveBlock(th)
        \/ AesCheckBlock(th) \/ AesExpandKey(th) \/ AesInitialRound(th)
        \/ AesMainRound(th) \/ AesLastRound(th) \/ AesReturn(th)
        \/ DeriveReturn(th)

SpecConc == InitConc /\ [][NextConc]_vars

(***************************************************************************)
(* Single derivations at the ends of the range of the seed's last byte:    *)
(* with min_seed 0 and a last byte of 0 the chain is 255 hashes long.  A   *)
(* call that has started keeps taking steps: nothing in the code waits.    *)
(***************************************************************************)
CostCalls ==
    { CallDeriveBlob(BlobMin0, << 0, 0, 0, 0, 0 >>, 135),
      CallDeriveBlob(BlobMin0, << 0, 0, 0, 0, 255 >>, 135),
      CallDeriveBlob(Blob87, << 0, 0, 0, 0, 255 >>, 135),
      CallDeriveBlob(BlobMin256, << 0, 0, 0, 0, 0 >>, 135),
      CallDeriveBlob(BlobBadTag, Seed87, 135),
      CallDeriveAlgo(135, Seed87), CallDeriveAlgo(99, Seed87) }

InitCost ==
    /\ password_map = PASSWORD_MAP
    /\ observed = { }
    /\ calls = [th \in Threads |-> IF th = Main THEN 1 ELSE 0]
    /\ \E f \in CostCalls : OneCall(f)

(* Weak fairness of Next, WF_vars(Next), with the enabling condition of    *)
(* Next written out: a step of Next is possible exactly while the call has *)
(* neither returned nor raised.                                            *)
Running == ~Finished(frame[Main])

FairNext == []<>(~Running) \/ []<><<Next>>_vars

SpecCost == InitCost /\ [][Next]_vars /\ FairNext

(***************************************************************************)
(* The field arithmetic called on its own: xtime(a) and gf_mul(a, b) for   *)
(* all bytes a and b.  Both are pure and total; a call is one step.        *)
(***************************************************************************)
CallXtime(value) ==
    [entry |-> "xtime", pc |-> "xtime", a |-> value, b |-> -1, result |-> << >>,
     error |-> ""]

CallGfMul(a, b) ==
    [entry |-> "gf_mul", pc |-> "gf_mul", a |-> a, b |-> b, result |-> << >>,
     error |-> ""]

XTime(th) ==
    /\ frame[th].pc = "xtime"
    /\ frame' = [frame EXCEPT ![th] = Return(frame[th], xtime(frame[th].a))]
    /\ UNCHANGED << password_map, observed, calls >>

GfMul(th) ==
    /\ frame[th].pc = "gf_mul"
    /\ frame' = [frame EXCEPT ![th] = Return(frame[th], gf_mul(frame[th].a, frame[th].b))]
    /\ UNCHANGED << password_map, observed, calls >>

InitGF ==
    /\ password_map = PASSWORD_MAP
    /\ observed = { }
    /\ calls = [th \in Threads |-> IF th = Main THEN 1 ELSE 0]
    /\ \/ \E a \in Byte : OneCall(CallXtime(a))
       \/ \E a \in Byte, b \in Byte : OneCall(CallGfMul(a, b))

NextGF == XTime(Main) \/ GfMul(Main)

SpecGF == InitGF /\ [][NextGF]_vars

(***************************************************************************)
(* The seed normalizers of the callers: parse_seed of keygen.py and        *)
(* normalize_seed of gui.py, and the derivation the caller starts with the *)
(* bytes they return.  A text is the sequence of its characters.           *)
(***************************************************************************)
ErrCliSeedLength == "Seed must be provided as 10 hex digits"

ErrCliSeedHex == "Seed is not valid hex"

ErrGuiSeedLength == "Seed must be exactly 5 bytes (10 hex digits)"

ErrGuiSeedHex == "Seed contains invalid hex digits"

SeedEntries == { "parse_seed", "normalize_seed" }

(* ch not in ' ,:_' *)
Separators == { " ", ",", ":", "_" }

NotSeparator(ch) == ch \notin Separators

HexLower == << "0", "1", "2", "3", "4", "5", "6", "7", "8", "9", "a", "b", "c", "d", "e", "f" >>

HexUpper == << "0", "1", "2", "3", "4", "5", "6", "7", "8", "9", "A", "B", "C", "D", "E", "F" >>

(* The value of a hex digit, 16 for any other character. *)
HexValue(ch) ==
    IF \E k \in 1..16 : HexLower[k] = ch \/ HexUpper[k] = ch
    THEN (CHOOSE k \in 1..16 : HexLower[k] = ch \/ HexUpper[k] = ch) - 1
    ELSE 16

(* The ASCII whitespace bytes.fromhex skips between two bytes (a vertical  *)
(* tab, which it skips too, cannot be written in a string here).           *)
HexSpace == { " ", "\t", "\n", "\r", "\f" }

(* bytes.fromhex: whitespace is skipped before a byte, never inside one;   *)
(* a byte is two hex digits.  [ok, bytes]: ok is FALSE for a ValueError.   *)
RECURSIVE fromhex_loop(_, _, _)
fromhex_loop(text, k, bytes) ==
    IF k > Len(text) THEN [ok |-> TRUE, bytes |-> bytes]
    ELSE IF text[k] \in HexSpace THEN fromhex_loop(text, k + 1, bytes)
    ELSE IF HexValue(text[k]) >= 16 \/ k + 1 > Len(text) \/ HexValue(text[k + 1]) >= 16
    THEN [ok |-> FALSE, bytes |-> << >>]
    ELSE fromhex_loop(text, k + 2,
                      Append(bytes, 16 * HexValue(text[k]) + HexValue(text[k + 1])))

fromhex(text) == fromhex_loop(text, 1, << >>)

(* the placeholder of the GUI *)
SeedText87 == << "8", "C", "E", "7", "D", "1", "F", "D", "0", "6" >>

(* lower case, spaces *)
SeedTextSpaces == << "8", "c", " ", "e", "7", " ", "d", "1", " ", "f", "d", " ", "0", "6" >>

(* colons *)
SeedTextColons == << "8", "C", ":", "E", "7", ":", "D", "1", ":", "F", "D", ":", "0", "6" >>

(* every separator *)
SeedTextMixed == << "0", "1", ",", "0", "2", "_", "0", "3", " ", "0", "4", ":", "0", "A" >>

(* 9 digits *)
SeedTextNine == << "8", "C", "E", "7", "D", "1", "F", "D", "0" >>

(* 11 digits *)
SeedTextEleven == << "8", "C", "E", "7", "D", "1", "F", "D", "0", "6", "0" >>

(* G is no hex digit *)
SeedTextNotHex == << "8", "C", "E", "7", "D", "1", "F", "D", "G", "6" >>

(* 8 digits and two tabs *)
SeedTextTabs == << "8", "C", "E", "7", "D", "1", "F", "D", "\t", "\t" >>

(* a tab, 8 digits, a newline *)
SeedTextTabNewline == << "\t", "8", "C", "E", "7", "D", "1", "F", "D", "\n" >>

(* a tab and 9 digits *)
SeedTextTabOdd == << "8", "C", "\t", "E", "7", "D", "1", "F", "D", "0" >>

(* a tab inside a pair of digits *)
SeedTextTabInPair == << "8", "C", "E", "7", "D", "1", "F", "\t", "0", "6" >>

(* ten tabs *)
SeedTextAllTabs == << "\t", "\t", "\t", "\t", "\t", "\t", "\t", "\t", "\t", "\t" >>

(* empty *)
SeedTextEmpty == << >>

SeedTexts ==
    { SeedText87, SeedTextSpaces, SeedTextColons, SeedTextMixed, SeedTextNine,
      SeedTextEleven, SeedTextNotHex, SeedTextTabs, SeedTextTabNewline, SeedTextTabOdd,
      SeedTextTabInPair, SeedTextAllTabs, SeedTextEmpty }

CallSeed(entry, text) ==
    [entry |-> entry, pc |-> "seed_filter", text |-> text, filtered |-> << >>,
     result |-> << >>, error |-> ""]

(* keygen.py line 13, gui.py line 14. *)
SeedFilter(th) ==
    /\ frame[th].pc = "seed_filter"
    /\ frame' = [frame EXCEPT ![th] =
            [frame[th] EXCEPT !.filtered = SelectSeq(frame[th].text, NotSeparator),
                              !.pc = "seed_length"]]
    /\ UNCHANGED << password_map, observed, calls >>

(* keygen.py lines 14-15, gui.py lines 15-16. *)
SeedLength(th) ==
    /\ frame[th].pc = "seed_length"
    /\ LET f == frame[th]
       IN  frame' = [frame EXCEPT ![th] =
                IF Len(f.filtered) # 10
                THEN Raise(f, IF f.entry = "parse_seed" THEN ErrCliSeedLength
                              ELSE ErrGuiSeedLength)
                ELSE [f EXCEPT !.pc = "seed_fromhex"]]
    /\ UNCHANGED << password_map, observed, calls >>

FromHex(f, hex) ==
    IF ~hex.ok
    THEN Raise(f, IF f.entry = "parse_seed" THEN ErrCliSeedHex ELSE ErrGuiSeedHex)
    ELSE Return(f, hex.bytes)

(* keygen.py lines 16-19, gui.py lines 17-20. *)
SeedFromHex(th) ==
    /\ frame[th].pc = "seed_fromhex"
    /\ frame' = [frame EXCEPT ![th] = FromHex(frame[th], fromhex(frame[th].filtered))]
    /\ UNCHANGED << password_map, observed, calls >>

(* The frame g of a callee, with the caller and the text it started from. *)
CalledFrom(g, f) ==
    [k \in DOMAIN g \cup { "caller", "text" } |->
        IF k = "caller" THEN f.entry ELSE IF k = "text" THEN f.text ELSE g[k]]

(* keygen.py line 49 and gui.py line 99: the caller hands the bytes to     *)
(* derive_key_from_algo; the algorithm is 0x87, the GUI's initial value.   *)
CallerDerive(th) ==
    /\ frame[th].entry \in SeedEntries
    /\ frame[th].pc = "returned"
    /\ frame' = [frame EXCEPT ![th] =
            CalledFrom(CallDeriveAlgo(135, frame[th].result), frame[th])]
    /\ UNCHANGED << password_map, observed, calls >>

InitSeed ==
    /\ password_map = PASSWORD_MAP
    /\ observed = { }
    /\ calls = [th \in Threads |-> IF th = Main THEN 1 ELSE 0]
    /\ \E entry \in SeedEntries, text \in SeedTexts : OneCall(CallSeed(entry, text))

NextSeed ==
    \/ SeedFilter(Main) \/ SeedLength(Main) \/ SeedFromHex(Main) \/ CallerDerive(Main)
    \/ Next

SpecSeed == InitSeed /\ [][NextSeed]_vars

(***************************************************************************)
(* gui.py.  The widget is the frame of the GUI thread: its fields are the  *)
(* texts of the two inputs, of the output field and of the status label.   *)
(* clicked holds the texts handle_derive read at the last click.  Qt runs  *)
(* one handler at a time: while handle_derive runs, the frame is that of   *)
(* the derivation it called, with the widget's fields carried along, and   *)
(* no edit and no other click is handled.                                  *)
(***************************************************************************)
(* str.strip(), for ASCII whitespace. *)
RECURSIVE strip(_)
strip(text) ==
    IF Len(text) = 0 THEN text
    ELSE IF Head(text) \in HexSpace THEN strip(Tail(text))
    ELSE IF text[Len(text)] \in HexSpace THEN strip(SubSeq(text, 1, Len(text) - 1))
    ELSE text

(* The digits of an integer literal in the given base, read from position  *)
(* k on with value read so far: single underscores may separate digits.    *)
(* -1 if the digits are no literal.                                        *)
RECURSIVE int_digits(_, _, _, _)
int_digits(digits, base, k, value) ==
    IF k > Len(digits) THEN value
    ELSE IF digits[k] = "_"
    THEN IF k = Len(digits) \/ digits[k + 1] = "_" THEN -1
         ELSE int_digits(digits, base, k + 1, value)
    ELSE IF HexValue(digits[k]) >= base THEN -1
    ELSE int_digits(digits, base, k + 1, base * value + HexValue(digits[k]))

(* The base of a literal without its sign: 0x, 0o and 0b select it. *)
int_base(body) ==
    IF Len(body) < 2 \/ body[1] # "0" THEN 10
    ELSE IF body[2] \in { "x", "X" } THEN 16
    ELSE IF body[2] \in { "o", "O" } THEN 8
    ELSE IF body[2] \in { "b", "B" } THEN 2
    ELSE 10

(* The magnitude of a literal without its sign, -1 if it is none.  After a *)
(* base prefix one underscore may come first; a decimal literal starts     *)
(* with a digit, and with 0 only if it is zero.                            *)
int_magnitude(body, base) ==
    IF base # 10
    THEN IF Len(body) < 3 THEN -1
         ELSE IF body[3] = "_" THEN (IF Len(body) < 4 \/ body[4] = "_" THEN -1
                                     ELSE int_digits(body, base, 4, 0))
         ELSE int_digits(body, base, 3, 0)
    ELSE IF Len(body) = 0 \/ body[1] = "_" THEN -1
    ELSE IF body[1] = "0" /\ int_digits(body, 10, 1, 0) > 0 THEN -1
    ELSE int_digits(body, 10, 1, 0)

(* int(text, 0) for ASCII text: [ok, value], ok FALSE for a ValueError. *)
int_auto(text) ==
    LET t     == strip(text)
        signs == Len(t) > 0 /\ t[1] \in { "+", "-" }
        body  == IF signs THEN Tail(t) ELSE t
        m     == int_magnitude(body, int_base(body))
    IN  IF m < 0 THEN [ok |-> FALSE, value |-> 0]
        ELSE [ok |-> TRUE, value |-> IF signs /\ t[1] = "-" THEN -m ELSE m]

(* gui.py lines 23-34: [ok, value, error]. *)
parse_algo(text) ==
    LET t == strip(text)
        v == int_auto(t)
    IN  IF Len(t) = 0
        THEN [ok |-> FALSE, value |-> 0, error |-> "Algorithm cannot be empty"]
        ELSE IF ~v.ok
        THEN [ok |-> FALSE, value |-> 0,
              error |-> "Algorithm must be an integer (decimal or 0x hex)"]
        ELSE IF ~(0 <= v.value /\ v.value <= 65535)
        THEN [ok |-> FALSE, value |-> 0, error |-> "Algorithm must fit in 16 bits"]
        ELSE [ok |-> TRUE, value |-> v.value, error |-> ""]

(* gui.py lines 12-20: [ok, bytes, error]. *)
normalize_seed(text) ==
    LET filtered == SelectSeq(text, NotSeparator)
        hex      == fromhex(filtered)
    IN  IF Len(filtered) # 10
        THEN [ok |-> FALSE, bytes |-> << >>, error |-> ErrGuiSeedLength]
        ELSE IF ~hex.ok THEN [ok |-> FALSE, bytes |-> << >>, error |-> ErrGuiSeedHex]
        ELSE [ok |-> TRUE, bytes |-> hex.bytes, error |-> ""]

(* bytes.hex(): two lower-case digits for each byte. *)
hex(bytes) ==
    [k \in 1..(2 * Len(bytes)) |->
        IF k % 2 = 1 THEN HexLower[(bytes[(k + 1) \div 2] \div 16) + 1]
        ELSE HexLower[(bytes[k \div 2] % 16) + 1]]

(* gui.py lines 44-61: the widget as constructed. *)
KeyWidget ==
    [entry |-> "KeyWidget", pc |-> "idle",
     seed_input |-> << >>, algo_input |-> << "0", "x", "8", "7" >>,
     output_field |-> << >>, status_label |-> "", status_style |-> "",
     clicked |-> << >>]

(* The widget carried by the frame f, idle again. *)
Widget(f) ==
    [k \in DOMAIN KeyWidget |->
        IF k = "entry" THEN "KeyWidget" ELSE IF k = "pc" THEN "idle" ELSE f[k]]

(* An error shown with the output field left as it is.                    *)
show_error_only(w, message) ==
    [w EXCEPT !.status_style = "color: red;", !.status_label = message]

(* gui.py lines 77-81. *)
show_error(w, message) ==
    [w EXCEPT !.status_style = "color: red;", !.status_label = message,
              !.output_field = << >>]

(* gui.py lines 83-86. *)
show_success(w, message) ==
    [w EXCEPT !.status_style = "color: #007700;", !.status_label = message]

(* gui.py line 99: the frame g of the call, with the fields of the widget. *)
Handling(g, w) ==
    [k \in DOMAIN g \cup DOMAIN w |-> IF k \in DOMAIN g THEN g[k] ELSE w[k]]

GuiSeedTexts == { SeedText87, SeedTextMixed, SeedTextTabs, SeedTextNotHex }

(* 0x87; 135 after a space; 0x100, which PASSWORD_MAP does not hold; empty. *)
GuiAlgoTexts ==
    { << "0", "x", "8", "7" >>, << " ", "1", "3", "5" >>, << "0", "x", "1", "0", "0" >>,
      << >> }

(* The user edits the seed field (maxLength 20). *)
EditSeed(th) ==
    /\ frame[th].entry = "KeyWidget" /\ frame[th].pc = "idle"
    /\ \E text \in GuiSeedTexts :
          /\ Len(text) <= 20
          /\ frame' = [frame EXCEPT ![th] = [frame[th] EXCEPT !.seed_input = text]]
    /\ UNCHANGED << password_map, observed, calls >>

(* The user edits the algorithm field (maxLength 6). *)
EditAlgo(th) ==
    /\ frame[th].entry = "KeyWidget" /\ frame[th].pc = "idle"
    /\ \E text \in GuiAlgoTexts :
          /\ Len(text) <= 6
          /\ frame' = [frame EXCEPT ![th] = [frame[th] EXCEPT !.algo_input = text]]
    /\ UNCHANGED << password_map, observed, calls >>

(* gui.py lines 91-99: a click on "Get Key", up to the call of             *)
(* derive_key_from_algo.                                                   *)
Validated(w, seed, algo) ==
    IF ~seed.ok THEN show_error(w, seed.error)
    ELSE IF ~algo.ok THEN show_error(w, algo.error)
    ELSE Handling(CallDeriveAlgo(algo.value, seed.bytes), w)

handle_derive(th) ==
    /\ frame[th].entry = "KeyWidget" /\ frame[th].pc = "idle"
    /\ frame' = [frame EXCEPT ![th] =
            Validated([frame[th] EXCEPT !.clicked = << frame[th].seed_input,
                                                      frame[th].algo_input >>],
                      normalize_seed(frame[th].seed_input),
                      parse_algo(frame[th].algo_input))]
    /\ UNCHANGED << password_map, observed, calls >>

(* gui.py lines 100-102: the derivation raised a ValueError. *)
handle_derive_except(th) ==
    /\ "output_field" \in DOMAIN frame[th]
    /\ frame[th].entry = "derive_key_from_algo" /\ frame[th].pc = "raised"
    /\ frame' = [frame EXCEPT ![th] = show_error(Widget(frame[th]), frame[th].error)]
    /\ UNCHANGED << password_map, observed, calls >>

(* gui.py lines 104-105: the derivation returned. *)
handle_derive_return(th) ==
    /\ "output_field" \in DOMAIN frame[th]
    /\ frame[th].entry = "derive_key_from_algo" /\ frame[th].pc = "returned"
    /\ frame' = [frame EXCEPT ![th] =
            show_success([Widget(frame[th]) EXCEPT
                              !.output_field = hex(frame[th].result.mac)],
                         "Key calculated successfully")]
    /\ UNCHANGED << password_map, observed, calls >>

InitGui ==
    /\ password_map = PASSWORD_MAP
    /\ observed = { }
    /\ calls = [th \in Threads |-> IF th = Main THEN 1 ELSE 0]
    /\ OneCall(KeyWidget)

NextGui ==
    \/ EditSeed(Main) \/ EditAlgo(Main) \/ handle_derive(Main)
    \/ handle_derive_except(Main) \/ handle_derive_return(Main)
    \/ Next

SpecGui == InitGui /\ [][NextGui]_vars

(***************************************************************************)
(* What the claims speak of.                                               *)
(***************************************************************************)
DeriveEntries == { "derive_key_from_algo", "derive_key_from_blob" }

(* The frame has parsed its blob: the parser returned a record. *)
Parsed(f) == f.record # NoRecord

Hashed(digest) == IF Evaluated(digest) THEN SHA256(digest) ELSE digest

(* SHA-256 applied n times to secret. *)
RECURSIVE Chain(_, _)
Chain(secret, n) == IF n <= 0 THEN secret ELSE Hashed(Chain(secret, n - 1))

(* Eleven 0xFF bytes, then the five bytes of the seed at positions 11..15. *)
SeedBlock(seed) ==
    << 255, 255, 255, 255, 255, 255, 255, 255, 255, 255, 255,
       seed[1], seed[2], seed[3], seed[4], seed[5] >>

(***************************************************************************)
(* C1.  A derivation whose blob parses to a record of the requested        *)
(* algorithm, with a 5-byte seed and min_seed <= 255 - seed[4], returns    *)
(* (mac, iterations, aes_key) with iterations = (255 - seed[4]) - min_seed,*)
(* aes_key the first 16 bytes of SHA-256 applied iterations times to the   *)
(* secret, and mac the first 5 bytes of the AES-128 encryption under       *)
(* aes_key of eleven 0xFF bytes followed by the seed.                      *)
(***************************************************************************)
C1_Accepts(f) ==
    /\ Finished(f) /\ f.entry \in DeriveEntries
    /\ Parsed(f) /\ f.record.algo_id = f.algo
    /\ Len(f.seed) = 5 /\ f.record.min_seed <= 255 - f.seed[5]

C1_Result(f) ==
    /\ f.pc = "returned"
    /\ f.result.iterations = (255 - f.seed[5]) - f.record.min_seed
    /\ f.result.aes_key = Slice(Chain(f.record.secret, f.result.iterations), 0, 16)
    /\ f.result.mac
         = Slice(aes_encrypt_block(f.result.aes_key, SeedBlock(f.seed)), 0, 5)

C1_DeriveResult == \A th \in Threads : C1_Accepts(frame[th]) => C1_Result(frame[th])

C1_Witness ==
    /\ C1_Accepts(frame[Main])
    /\ frame[Main].entry = "derive_key_from_blob"
    /\ frame[Main].pc = "returned"
    /\ frame[Main].result.iterations > 1

(***************************************************************************)
(* C2.  aes_encrypt_block returns 69c4e0d86a7b0430d8cdb78070b4c55a for the *)
(* FIPS-197 key 000102030405060708090a0b0c0d0e0f and plaintext             *)
(* 00112233445566778899aabbccddeeff, and every encryption it returns has   *)
(* applied an initial AddRoundKey, nine rounds of SubBytes, ShiftRows,     *)
(* MixColumns, AddRoundKey, and a final round without MixColumns.          *)
(***************************************************************************)
FipsCipher ==
    << 105, 196, 224, 216, 106, 123, 4, 48, 216, 205, 183, 128, 112, 180, 197, 90 >>

MixedRound == << "sub_bytes", "shift_rows", "mix_columns", "add_round_key" >>

Fips197Rounds ==
    << "add_round_key" >>
      \o MixedRound \o MixedRound \o MixedRound \o MixedRound \o MixedRound
      \o MixedRound \o MixedRound \o MixedRound \o MixedRound
      \o << "sub_bytes", "shift_rows", "add_round_key" >>

C2_Fips197 ==
    \A th \in Threads :
        LET f == frame[th]
        IN  /\ (f.entry = "aes_encrypt_block" /\ f.pc = "returned")
                  => f.ops = Fips197Rounds
            /\ (f.entry = "aes_encrypt_block" /\ Finished(f)
                   /\ f.key = FipsKey /\ f.block = FipsPlain)
                  => (f.pc = "returned" /\ f.result = FipsCipher)

C2_Witness ==
    /\ frame[Main].entry = "aes_encrypt_block"
    /\ frame[Main].key = FipsKey /\ frame[Main].block = FipsPlain
    /\ frame[Main].pc = "returned"

(***************************************************************************)
(* C3.  With a parsed record of the requested algorithm and a 5-byte seed, *)
(* the derivation fails with the seed-rejected error if and only if        *)
(* min_seed > 255 - seed[4].  With seed tail 0xFF it is rejected when      *)
(* min_seed > 0 and returns iterations = 0 when min_seed = 0; a record     *)
(* with min_seed > 255 is rejected for every seed.                         *)
(***************************************************************************)
C3_Checked(f) ==
    /\ Finished(f) /\ f.entry \in DeriveEntries
    /\ Parsed(f) /\ f.record.algo_id = f.algo
    /\ Len(f.seed) = 5

C3_Rejected(f) == f.pc = "raised" /\ f.error = ErrSeedRejected

C3_Outcome(f) ==
    /\ C3_Rejected(f) <=> (f.record.min_seed > 255 - f.seed[5])
    /\ (f.seed[5] = 255 /\ f.record.min_seed > 0) => C3_Rejected(f)
    /\ (f.seed[5] = 255 /\ f.record.min_seed = 0)
          => (f.pc = "returned" /\ f.result.iterations = 0)
    /\ f.record.min_seed > 255 => C3_Rejected(f)

C3_SeedRejected == \A th \in Threads : C3_Checked(frame[th]) => C3_Outcome(frame[th])

C3_Witness ==
    /\ C3_Checked(frame[Main])
    /\ frame[Main].seed[5] = 255 /\ frame[Main].record.min_seed > 0
    /\ C3_Rejected(frame[Main])

(***************************************************************************)
(* C4.  derive_key_from_algo fails with the unknown-algorithm error if and *)
(* only if the requested id is absent from the registry; when the id is    *)
(* present, whatever its blob, the blob goes to the parser.  The code      *)
(* raises the unknown-algorithm error for a registered empty blob as well, *)
(* so this formula is violated.                                            *)
(***************************************************************************)
C4_UnknownAlgo(f) == f.pc = "raised" /\ f.error = ErrUnknownAlgo

C4_UnknownIffAbsent ==
    \A th \in Threads :
        LET f == frame[th]
        IN  (f.entry = "derive_key_from_algo" /\ Finished(f))
              => /\ C4_UnknownAlgo(f) <=> (f.algo \notin DOMAIN password_map)
                 /\ f.algo \in DOMAIN password_map => f.blob = password_map[f.algo]

(***************************************************************************)
(* C5.  As claimed: parse_password_blob rejects a blob on length grounds   *)
(* only when it has fewer than 62 characters.  The code rejects a blob of  *)
(* more than 62 characters too, its payload not being 60 characters, so    *)
(* this formula is violated.                                               *)
(***************************************************************************)
ParseFrame(f) == f.entry = "parse_password_blob" /\ Finished(f)

LengthError(f) == f.pc = "raised" /\ f.error \in { ErrTooShort, ErrPayloadLength }

AcceptedPrefix(blob) == Slice(blob, 0, 2) \in { << "0", "1" >>, << "0", "3" >> }

C5_OnlyShortRejected ==
    \A th \in Threads :
        (ParseFrame(frame[th]) /\ LengthError(frame[th])) => Len(frame[th].blob) < 62

(* The payload is 60 Base64 characters that decode to 44 bytes, the last 8 *)
(* the first 8 bytes of SHA-256 of the 36 before them.                     *)
WellFormed(decoded) ==
    /\ decoded.ok /\ Len(decoded.bytes) = 44
    /\ Slice(SHA256(Slice(decoded.bytes, 0, 36)), 0, 8) = Slice(decoded.bytes, 36, 44)

(***************************************************************************)
(* C5, amended.  parse_password_blob rejects a blob on length grounds      *)
(* exactly when its length is not 62: fewer than 62 characters raise the   *)
(* too-short error, more than 62 with an accepted prefix raise the         *)
(* payload-length error, and no blob of 62 characters raises either.       *)
(* Every blob of exactly 62 characters, an accepted prefix followed by 60  *)
(* Base64 characters that decode to 44 bytes with a correct checksum, is   *)
(* accepted.                                                               *)
(***************************************************************************)
C5_Length(f) ==
    /\ Len(f.blob) < 62 => (f.pc = "raised" /\ f.error = ErrTooShort)
    /\ (Len(f.blob) > 62 /\ AcceptedPrefix(f.blob))
          => (f.pc = "raised" /\ f.error = ErrPayloadLength)
    /\ Len(f.blob) > 62 => f.pc = "raised"
    /\ LengthError(f) => Len(f.blob) # 62
    /\ (Len(f.blob) = 62 /\ AcceptedPrefix(f.blob)
           /\ WellFormed(b64decode(Slice(f.blob, 2, 62))))
          => f.pc = "returned"

C5_ExactLength == \A th \in Threads : ParseFrame(frame[th]) => C5_Length(frame[th])

C5_Witness ==
    /\ ParseFrame(frame[Main])
    /\ Len(frame[Main].blob) = 63 /\ AcceptedPrefix(frame[Main].blob)
    /\ frame[Main].error = ErrPayloadLength

(***************************************************************************)
(* C6.  Every accepted blob, with any single bit of the 8 trailing bytes   *)
(* of its decoded payload flipped and the payload encoded again, fails to  *)
(* parse with the digest-mismatch error; and parsing fails with that error *)
(* whenever SHA-256(raw[0:36])[0:8] differs from raw[36:44].               *)
(***************************************************************************)
BitCount(x) ==
    (x % 2) + ((x \div 2) % 2) + ((x \div 4) % 2) + ((x \div 8) % 2)
      + ((x \div 16) % 2) + ((x \div 32) % 2) + ((x \div 64) % 2) + ((x \div 128) % 2)

(* The number of bits in which the last 8 of the 44 bytes a and b differ. *)
ChecksumDistance(a, b) ==
    BitCount(Xor(a[37], b[37])) + BitCount(Xor(a[38], b[38]))
      + BitCount(Xor(a[39], b[39])) + BitCount(Xor(a[40], b[40]))
      + BitCount(Xor(a[41], b[41])) + BitCount(Xor(a[42], b[42]))
      + BitCount(Xor(a[43], b[43])) + BitCount(Xor(a[44], b[44]))

(* raw is the payload of the accepted blob with one checksum bit flipped. *)
OneBitFlipped(raw, blob) ==
    LET accepted == b64decode(Slice(blob, 2, 62)).bytes
    IN  /\ Len(raw) = 44
        /\ Slice(raw, 0, 36) = Slice(accepted, 0, 36)
        /\ ChecksumDistance(raw, accepted) = 1

DigestError(f) == f.pc = "raised" /\ f.error = ErrDigest

C6_Checksum(f) ==
    /\ f.blob \in AcceptedBlobs => f.pc = "returned"
    /\ \A blob \in AcceptedBlobs : OneBitFlipped(f.raw, blob) => DigestError(f)
    /\ (Len(f.raw) = 44 /\ Slice(SHA256(Slice(f.raw, 0, 36)), 0, 8) # Slice(f.raw, 36, 44))
          => DigestError(f)

C6_ChecksumBitFlip == \A th \in Threads : ParseFrame(frame[th]) => C6_Checksum(frame[th])

C6_Witness ==
    /\ ParseFrame(frame[Main])
    /\ frame[Main].blob = Flipped(BlobMin0, 63)
    /\ OneBitFlipped(frame[Main].raw, BlobMin0)
    /\ DigestError(frame[Main])

(***************************************************************************)
(* C7.  On a parsed record derive_key_from_blob reports an algorithm       *)
(* mismatch before it looks at the seed's length, and a wrong seed length  *)
(* before it evaluates the min_seed constraint: a call with a mismatching  *)
(* algorithm and a seed that is not 5 bytes fails with the                 *)
(* algorithm-mismatch error, and seed[4] is never read for a seed that is  *)
(* not exactly 5 bytes.                                                    *)
(***************************************************************************)
C7_Order(f) ==
    /\ f.algo # f.record.algo_id => (f.pc = "raised" /\ f.error = ErrAlgoMismatch)
    /\ (f.algo = f.record.algo_id /\ Len(f.seed) # 5)
          => (f.pc = "raised" /\ f.error = ErrSeedLength)

C7_CheckOrder ==
    \A th \in Threads :
        LET f == frame[th]
        IN  /\ (Finished(f) /\ f.entry \in DeriveEntries /\ Parsed(f)) => C7_Order(f)
            /\ Len(f.seed) # 5 => (f.seed_tail = -1 /\ f.max_seed = -1)

C7_Witness ==
    /\ Finished(frame[Main]) /\ frame[Main].entry = "derive_key_from_blob"
    /\ Parsed(frame[Main])
    /\ frame[Main].algo # frame[Main].record.algo_id /\ Len(frame[Main].seed) # 5
    /\ frame[Main].error = ErrAlgoMismatch

(***************************************************************************)
(* C8.  Every blob parse_password_blob accepts has a payload that decodes  *)
(* to exactly 44 bytes whose last 8 are the first 8 bytes of SHA-256 of    *)
(* the 36 before them, and the record returned has secret = raw[0:32],     *)
(* min_seed and algo_id the big-endian 16-bit values of raw[32:34] and     *)
(* raw[34:36], both in 0..65535.                                           *)
(***************************************************************************)
C8_Fields(f, raw) ==
    /\ Len(raw) = 44
    /\ Slice(raw, 36, 44) = Slice(SHA256(Slice(raw, 0, 36)), 0, 8)
    /\ f.result.secret = Slice(raw, 0, 32) /\ Len(f.result.secret) = 32
    /\ f.result.min_seed = raw[33] * 256 + raw[34]
    /\ f.result.algo_id = raw[35] * 256 + raw[36]
    /\ f.result.min_seed \in 0..65535 /\ f.result.algo_id \in 0..65535

C8_Record(f, decoded) == decoded.ok /\ C8_Fields(f, decoded.bytes)

C8_AcceptedRecord ==
    \A th \in Threads :
        (ParseFrame(frame[th]) /\ frame[th].pc = "returned")
          => C8_Record(frame[th],
                       b64decode(Slice(frame[th].blob, 2, Len(frame[th].blob))))

C8_Witness ==
    /\ ParseFrame(frame[Main]) /\ frame[Main].pc = "returned"
    /\ frame[Main].result.min_seed = 256 /\ frame[Main].result.algo_id = 135

(***************************************************************************)
(* C9.  run_hash_chain satisfies chain(secret, 0) = secret,                *)
(* chain(secret, 1) = SHA-256(secret) and                                  *)
(* chain(secret, n + 1) = SHA-256(chain(secret, n)) for every n >= 0, and  *)
(* hence chain(chain(secret, m), n) = chain(secret, m + n).                *)
(***************************************************************************)
C9_Chain(f) ==
    /\ f.pc = "returned"
    /\ f.iterations = 0 => f.result = f.secret
    /\ f.iterations = 1 => f.result = SHA256(f.secret)
    /\ f.iterations >= 1 => f.result = SHA256(Chain(f.secret, f.iterations - 1))
    /\ \A m \in 0..f.iterations :
           f.result = Chain(Chain(f.secret, m), f.iterations - m)

C9_HashChain ==
    \A th \in Threads :
        LET f == frame[th]
        IN  (f.entry = "run_hash_chain" /\ Finished(f) /\ f.iterations >= 0)
              => C9_Chain(f)

C9_Witness ==
    /\ frame[Main].entry = "run_hash_chain" /\ frame[Main].pc = "returned"
    /\ frame[Main].iterations >= 3 /\ Len(frame[Main].secret) = 32

(***************************************************************************)
(* C10.  Two calls of derive_key_from_algo with the same algorithm, seed   *)
(* and registry have the same outcome, the same (mac, iterations, aes_key) *)
(* or the same error, also when other derivations run between them or     *)
(* interleaved with them; no call modifies the registry.                   *)
(***************************************************************************)
Seen == observed \cup { Outcome(frame[th]) : th \in { t \in Threads : Finished(frame[t]) } }

C11_AtMost255Hashes ==
    \A th \in Threads :
        frame[th].entry \in DeriveEntries => frame[th].sha_calls <= 255

(***************************************************************************)
(* C11, amended.  Every call of derive_key_from_blob or                    *)
(* derive_key_from_algo terminates, every successful call has              *)
(* 0 <= iterations <= 255, and each call performs at most 256 SHA-256 hash *)
(* operations, one for the blob's checksum and at most 255 in the chain,   *)
(* and at most one AES block encryption of 10 rounds.                      *)
(***************************************************************************)
C11_Cost(f) ==
    /\ f.pc = "returned" => (f.result.iterations \in 0..255
                               /\ f.sha_calls = 1 + f.result.iterations)
    /\ f.sha_calls <= 256
    /\ f.aes_calls <= 1 /\ f.rnd <= 10

C11_BoundedCost ==
    /\ [](\A th \in Threads : frame[th].entry \in DeriveEntries => C11_Cost(frame[th]))
    /\ <>Finished(frame[Main])

C11_Witness ==
    /\ frame[Main].entry = "derive_key_from_blob" /\ frame[Main].pc = "returned"
    /\ frame[Main].result.iterations = 255 /\ frame[Main].sha_calls = 256
    /\ frame[Main].aes_calls = 1

(***************************************************************************)
(* C12.  A call of derive_key_from_blob or derive_key_from_algo is all or  *)
(* nothing.  Until it returns it has no result.  When it returns, the      *)
(* result is a complete triple: a mac of 5 bytes, the iteration count and  *)
(* an aes_key of 16 bytes, and no error is set.  When it raises, it raises *)
(* one error of the taxonomy (unknown algorithm, blob format,              *)
(* authenticity, algorithm mismatch, seed length, seed rejected), it has   *)
(* no result, and nothing that follows the failing check in the code has   *)
(* run: a format error leaves the payload undecoded or unhashed, a parser  *)
(* error leaves no record, an error of the checks leaves the chain and the *)
(* cipher unentered.                                                       *)
(***************************************************************************)
FormatErrors == { ErrTooShort, ErrPrefix, ErrPayloadLength, ErrBase64, ErrDecodedLength }

Taxonomy ==
    FormatErrors
      \cup { ErrDigest, ErrAlgoMismatch, ErrSeedLength, ErrSeedRejected, ErrUnknownAlgo }

C12_Triple(f) ==
    /\ f.error = ""
    /\ DOMAIN f.result = { "mac", "iterations", "aes_key" }
    /\ IsBytes(f.result.mac) /\ Len(f.result.mac) = 5
    /\ f.result.iterations \in 0..255
    /\ IsBytes(f.result.aes_key) /\ Len(f.result.aes_key) = 16

C12_Stopped(f) ==
    /\ f.error = ErrUnknownAlgo => (f.entry = "derive_key_from_algo" /\ f.blob = << >>)
    /\ f.error \in { ErrUnknownAlgo, ErrTooShort, ErrPrefix } => f.payload = << >>
    /\ f.error \in { ErrUnknownAlgo, ErrTooShort, ErrPrefix, ErrPayloadLength, ErrBase64 }
         => f.raw = << >>
    /\ f.error \in FormatErrors \cup { ErrUnknownAlgo } => f.sha_calls = 0
    /\ f.error \in FormatErrors \cup { ErrUnknownAlgo, ErrDigest } => ~Parsed(f)
    /\ f.error \in { ErrDigest, ErrAlgoMismatch, ErrSeedLength, ErrSeedRejected }
         => f.sha_calls = 1
    /\ f.error \in { ErrAlgoMismatch, ErrSeedLength, ErrSeedRejected } => Parsed(f)
    /\ f.error # ErrSeedRejected => (f.seed_tail = -1 /\ f.max_seed = -1)
    /\ f.iterations = -1 /\ f.secret = << >> /\ f.digest = << >> /\ f.count = -1
    /\ f.aes_key = << >> /\ f.block = << >> /\ f.aes_calls = 0 /\ f.cipher = << >>

C12_AllOrNothing ==
    \A th \in Threads :
        LET f == frame[th]
        IN  f.entry \in DeriveEntries
              => /\ f.pc # "returned" => f.result = << >>
                 /\ f.pc # "raised" => f.error = ""
                 /\ f.pc = "returned" => C12_Triple(f)
                 /\ f.pc = "raised"
                      => (f.error \in Taxonomy /\ f.result = << >> /\ C12_Stopped(f))

(* Every error of the taxonomy is raised by some call, and some call       *)
(* returns: here a call has stopped at the seed's length after a parse.    *)
C12_Witness ==
    /\ frame[Main].entry \in DeriveEntries /\ frame[Main].pc = "raised"
    /\ frame[Main].error = ErrSeedLength /\ Parsed(frame[Main])
    /\ Len(frame[Main].seed) = 6

(***************************************************************************)
(* C13.  A call of derive_key_from_blob or derive_key_from_algo that has   *)
(* reached the cipher has handed aes_encrypt_block a key of exactly 16     *)
(* bytes and a block of exactly 16 bytes; with an iteration count of 0 the *)
(* key is the first 16 bytes of the secret.  No such call raises the       *)
(* key-length or the block-length error.                                   *)
(***************************************************************************)
C13_CipherArguments(f) ==
    /\ IsBytes(f.key) /\ Len(f.key) = 16
    /\ IsBytes(f.block) /\ Len(f.block) = 16
    /\ f.key = f.aes_key
    /\ f.iterations = 0 => f.key = Slice(f.record.secret, 0, 16)

C13_CipherLengths ==
    \A th \in Threads :
        LET f == frame[th]
        IN  f.entry \in DeriveEntries
              => /\ f.aes_calls > 0 => C13_CipherArguments(f)
                 /\ f.error \notin { ErrKeyLength, ErrBlockLength }

(* The cipher has been reached with an iteration count of 0, and has       *)
(* expanded its key.                                                       *)
C13_Witness ==
    /\ frame[Main].entry \in DeriveEntries /\ frame[Main].aes_calls = 1
    /\ frame[Main].iterations = 0 /\ frame[Main].pc = "aes_initial"
    /\ Len(frame[Main].round_keys) = 11

(***************************************************************************)
(* C14.  expand_key, called by aes_encrypt_block on a block of 16 bytes:   *)
(* a key that is not exactly 16 bytes long raises the key-length error and *)
(* yields no round keys.  A key of 16 bytes yields exactly 11 round keys   *)
(* of 16 bytes, every byte in 0..255; round key 0 is the key; and with the *)
(* round keys read as 44 words of 4 bytes, word i (4 <= i < 44) is word    *)
(* i - 4 XOR word i - 1, where for i mod 4 = 0 word i - 1 is first rotated *)
(* left by one byte, substituted through the S-box and XORed in its first  *)
(* byte with Rcon[i / 4].                                                  *)
(***************************************************************************)
C14_Word(round_keys, i) ==
    Slice(round_keys[(i \div 4) + 1], 4 * (i % 4), 4 * (i % 4) + 4)

C14_Temp(w, i) ==
    IF i % 4 = 0
    THEN << Xor(SBOX[w[2] + 1], RCON[(i \div 4) + 1]), SBOX[w[3] + 1], SBOX[w[4] + 1],
            SBOX[w[1] + 1] >>
    ELSE w

C14_Recurrence(round_keys, i) ==
    LET old == C14_Word(round_keys, i - 4)
        t   == C14_Temp(C14_Word(round_keys, i - 1), i)
    IN  C14_Word(round_keys, i) = [j \in 1..4 |-> Xor(old[j], t[j])]

C14_Schedule(key, round_keys) ==
    /\ Len(round_keys) = 11
    /\ \A r \in 1..11 : IsBytes(round_keys[r]) /\ Len(round_keys[r]) = 16
    /\ round_keys[1] = key
    /\ \A i \in 4..43 : C14_Recurrence(round_keys, i)

C14_ExpandKey ==
    \A th \in Threads :
        LET f == frame[th]
        IN  (f.entry = "aes_encrypt_block" /\ Len(f.block) = 16)
              => /\ f.pc \in { "aes_check_block", "aes_expand_key" } => f.round_keys = << >>
                 /\ (f.pc \notin { "aes_check_block", "aes_expand_key" } /\ Len(f.key) # 16)
                      => (f.pc = "raised" /\ f.error = ErrKeyLength /\ f.round_keys = << >>)
                 /\ (f.pc \notin { "aes_check_block", "aes_expand_key" } /\ Len(f.key) = 16)
                      => (f.error = "" /\ C14_Schedule(f.key, f.round_keys))

(* The key of FIPS-197 appendix C.1 has been expanded: its last round key  *)
(* is 13111d7f e3944a17 f307a78b 4d2b30c5.                                 *)
C14_Witness ==
    /\ frame[Main].entry = "aes_encrypt_block" /\ frame[Main].pc = "aes_initial"
    /\ frame[Main].key = FipsKey
    /\ frame[Main].round_keys[11]
         = << 19, 17, 29, 127, 227, 148, 74, 23, 243, 7, 167, 139, 77, 43, 48, 197 >>

(***************************************************************************)
(* C15.  For all bytes a and b: xtime(a) is the product of a and x, and    *)
(* gf_mul(a, b) the product of a and b, in GF(2^8), the polynomials over   *)
(* GF(2) modulo x^8 + x^4 + x^3 + x + 1 (0x11B); both lie in 0..255;       *)
(* gf_mul is commutative, gf_mul(a, 1) = a, gf_mul(a, 2) = xtime(a) and    *)
(* gf_mul(a, 3) = xtime(a) XOR a.                                          *)
(***************************************************************************)
C15_Bit(n, k) == (n \div 2^k) % 2

(* The coefficients of the product of the polynomials a and b over GF(2). *)
C15_Product(a, b) ==
    [k \in 0..14 |->
        Cardinality({ i \in 0..7 : /\ k - i \in 0..7
                                   /\ C15_Bit(a, i) = 1
                                   /\ C15_Bit(b, k - i) = 1 }) % 2]

(* p with its terms of degree k down to 8 replaced: x^8 = x^4 + x^3 + x + 1. *)
RECURSIVE C15_Reduce(_, _)
C15_Reduce(p, k) ==
    IF ~Evaluated(p) \/ k < 8 THEN p
    ELSE C15_Reduce(IF p[k] = 0 THEN p
                    ELSE [j \in 0..14 |->
                             IF j = k THEN 0
                             ELSE IF j - (k - 8) \in { 0, 1, 3, 4 } THEN 1 - p[j]
                             ELSE p[j]],
                    k - 1)

C15_Value(p) ==
    p[0] + 2 * p[1] + 4 * p[2] + 8 * p[3] + 16 * p[4] + 32 * p[5] + 64 * p[6] + 128 * p[7]

C15_FieldProduct(a, b) == C15_Value(C15_Reduce(C15_Product(a, b), 14))

C15_GfMul(a, b, result) ==
    /\ result \in Byte
    /\ result = C15_FieldProduct(a, b)
    /\ result = gf_mul(b, a)
    /\ b = 1 => result = a
    /\ b = 2 => result = xtime(a)
    /\ b = 3 => result = Xor(xtime(a), a)

C15_FieldArithmetic ==
    \A th \in Threads :
        LET f == frame[th]
        IN  /\ (f.entry = "xtime" /\ f.pc = "returned")
                 => (f.result \in Byte /\ f.result = C15_FieldProduct(f.a, 2))
            /\ (f.entry = "gf_mul" /\ f.pc = "returned") => C15_GfMul(f.a, f.b, f.result)
            /\ f.entry \in { "xtime", "gf_mul" } => f.pc # "raised"

(* {57} * {83} = {c1}, the example of FIPS-197 section 4.2: the last       *)
(* iteration of the loop and the reduction both matter.                    *)
C15_Witness ==
    /\ frame[Main].entry = "gf_mul" /\ frame[Main].pc = "returned"
    /\ frame[Main].a = 87 /\ frame[Main].b = 131 /\ frame[Main].result = 193

(***************************************************************************)
(* C16.  parse_password_blob reports the first check that fails, in the    *)
(* order: too short (fewer than 62 characters), unsupported prefix,        *)
(* invalid payload (not 60 characters, not strict Base64, or not 44        *)
(* decoded bytes), checksum mismatch.  A blob that is too short fails as   *)
(* too short whatever its prefix; a blob of 62 or more characters with a   *)
(* bad prefix fails for its prefix, with its payload neither decoded nor   *)
(* hashed; a payload error is raised before any hash is computed; the      *)
(* checksum is compared only for a blob that passed every other check.     *)
(***************************************************************************)
PayloadErrors == { ErrPayloadLength, ErrBase64, ErrDecodedLength }

C16_TooShort(blob) == Len(blob) < 62

C16_BadPrefix(blob) == Len(blob) < 2 \/ blob[1] # "0" \/ blob[2] \notin { "1", "3" }

C16_BadPayload(blob) ==
    \/ Len(blob) # 62
    \/ ~b64decode(SubSeq(blob, 3, 62)).ok
    \/ Len(b64decode(SubSeq(blob, 3, 62)).bytes) # 44

C16_FirstFailure(f) ==
    IF C16_TooShort(f.blob)
    THEN f.pc = "raised" /\ f.error = ErrTooShort /\ f.payload = << >>
    ELSE IF C16_BadPrefix(f.blob)
    THEN /\ f.pc = "raised" /\ f.error = ErrPrefix
         /\ f.payload = << >> /\ f.raw = << >> /\ f.sha_calls = 0
    ELSE IF C16_BadPayload(f.blob)
    THEN f.pc = "raised" /\ f.error \in PayloadErrors /\ f.sha_calls = 0
    ELSE /\ f.sha_calls = 1
         /\ \/ f.pc = "raised" /\ f.error = ErrDigest
            \/ f.pc = "returned" /\ f.error = ""

C16_CheckOrder ==
    \A th \in Threads :
        LET f == frame[th]
        IN  /\ (f.entry = "parse_password_blob" /\ Finished(f)) => C16_FirstFailure(f)
            /\ (f.entry = "parse_password_blob" /\ C16_BadPrefix(f.blob))
                 => (f.raw = << >> /\ f.sha_calls = 0)

(* A blob of 40 characters with the prefix 02 has failed as too short. *)
C16_Witness ==
    /\ frame[Main].entry = "parse_password_blob" /\ frame[Main].pc = "raised"
    /\ frame[Main].blob = BlobShortBadPrefix /\ C16_BadPrefix(frame[Main].blob)
    /\ frame[Main].error = ErrTooShort

(***************************************************************************)
(* C17.  As claimed: parse_seed and normalize_seed return exactly 5 bytes  *)
(* whenever they return, the text without its separators being exactly 10  *)
(* hex digits; and the derivation a caller starts with the bytes returned  *)
(* never fails with the seed-length error.                                 *)
(***************************************************************************)
C17_Normalized(f) ==
    /\ IsBytes(f.result) /\ Len(f.result) = 5
    /\ Len(f.filtered) = 10
    /\ \A k \in DOMAIN f.filtered : HexValue(f.filtered[k]) < 16

C17_FiveByteSeed ==
    \A th \in Threads :
        LET f == frame[th]
        IN  /\ (f.entry \in SeedEntries /\ f.pc = "returned") => C17_Normalized(f)
            /\ (f.entry \in DeriveEntries /\ "caller" \in DOMAIN f)
                 => f.error # ErrSeedLength

(***************************************************************************)
(* C18.  Between two events the output field of the GUI never shows a      *)
(* stale key.  Before the first click it is empty.  After a click whose    *)
(* validation or derivation failed it is empty and the status shows the    *)
(* error, in red.  After a click that succeeded it shows the hex MAC of    *)
(* the seed and the algorithm read at that click, and the status shows     *)
(* success.  So the output field is non-empty only if the most recent      *)
(* click succeeded, whatever has been edited since.                        *)
(***************************************************************************)
(* The keys keygen.py prints for the seeds 8CE7D1FD06 and 010203040A under *)
(* algorithm 0x87; none of the other inputs derives a key.                 *)
C18_KnownKey(algo, seed) ==
    IF algo = 135 /\ seed = << 140, 231, 209, 253, 6 >>
    THEN << "e", "f", "c", "9", "7", "c", "a", "6", "a", "6" >>
    ELSE IF algo = 135 /\ seed = << 1, 2, 3, 4, 10 >>
    THEN << "b", "9", "5", "c", "9", "5", "5", "7", "6", "f" >>
    ELSE << >>

C18_Key(seed, algo) ==
    IF seed.ok /\ algo.ok THEN C18_KnownKey(algo.value, seed.bytes) ELSE << >>

C18_Errors ==
    { ErrGuiSeedLength, ErrGuiSeedHex, "Algorithm cannot be empty",
      "Algorithm must be an integer (decimal or 0x hex)", "Algorithm must fit in 16 bits" }
      \cup { ErrUnknownAlgo, ErrTooShort, ErrPrefix, ErrPayloadLength, ErrBase64,
              ErrDecodedLength, ErrDigest, ErrAlgoMismatch, ErrSeedLength, ErrSeedRejected }

C18_Shown(w, key) ==
    IF key # << >>
    THEN /\ w.output_field = key
         /\ w.status_label = "Key calculated successfully"
         /\ w.status_style = "color: #007700;"
    ELSE /\ w.output_field = << >>
         /\ w.status_label \in C18_Errors
         /\ w.status_style = "color: red;"

C18_NoStaleKey ==
    \A th \in Threads :
        LET w == frame[th]
        IN  (w.entry = "KeyWidget" /\ w.pc = "idle")
              => IF w.clicked = << >>
                 THEN w.output_field = << >> /\ w.status_label = ""
                 ELSE C18_Shown(w, C18_Key(normalize_seed(w.clicked[1]),
                                           parse_algo(w.clicked[2])))

(* A click has failed in the derivation, on a seed of 4 bytes, and the     *)
(* fields have been edited to a seed and an algorithm that derive a key.   *)
C18_Witness ==
    /\ frame[Main].entry = "KeyWidget" /\ frame[Main].pc = "idle"
    /\ frame[Main].clicked = << SeedTextTabs, << "0", "x", "8", "7" >> >>
    /\ frame[Main].status_label = ErrSeedLength /\ frame[Main].output_field = << >>
    /\ frame[Main].seed_input = SeedText87

====
